---- MODULE Spec2Model ----
(***************************************************************************)
(* dshell: permission model, isolated-execution pipeline and dispatch.     *)
(*                                                                         *)
(* Strings of the program are TLA+ strings; a character of a string s is   *)
(* SubSeq(s, i, i).  Sets of the program (HashSet<String>) are sets of     *)
(* strings, vectors are sequences, HashMap<String,String> is a function    *)
(* whose DOMAIN is the set of keys.                                        *)
(***************************************************************************)
EXTENDS Naturals, Integers, Sequences, FiniteSets, TLC

\* ------------------------------------------------------------------------
\* Bounds of the model
\* ------------------------------------------------------------------------

\* how many variable names the user may pass to allow / deny
NumEnvNames == 3
\* how many keys and values `export` may use
NumCustomKeys == 2
NumCustomValues == 2
\* how many path strings the user may pass to allowpath / denypath
NumPathArgs == 3
\* the longest line the parser is given
MaxLineLen == 4

\* ------------------------------------------------------------------------
\* String helpers (std::str)
\* ------------------------------------------------------------------------

\* str::starts_with
StartsWith(s, prefix) ==
    /\ Len(s) >= Len(prefix)
    /\ SubSeq(s, 1, Len(prefix)) = prefix

\* the characters the strings of the model are made of, in byte order
Ascii == " $'-./0123456789<=>ABCDEFGHIJKLMNOPQRSTUVWXYZ[]_abcdefghijklmnopqrstuvwxyz{}~"

\* the place of a character in the byte order
ByteOf ==
    [c \in {SubSeq(Ascii, i, i) : i \in 1..Len(Ascii)} |->
        CHOOSE i \in 1..Len(Ascii) : SubSeq(Ascii, i, i) = c]

\* the byte of a character
Byte(c) == ByteOf[c]

\* String::cmp(a, b) == Less: byte-wise lexicographic order: a is a proper
\* prefix of b, or the first byte they differ in is smaller in a
StrLess(a, b) ==
    \/ Len(a) < Len(b) /\ SubSeq(b, 1, Len(a)) = a
    \/ \E i \in 1..Len(a) :
          /\ i <= Len(b)
          /\ SubSeq(a, 1, i - 1) = SubSeq(b, 1, i - 1)
          /\ Byte(SubSeq(a, i, i)) < Byte(SubSeq(b, i, i))

\* Vec::sort_by(|a, b| a.0.cmp(&b.0)), a stable sort: the entry at place j
\* moves behind the entries of smaller key and the earlier ones of equal key
sort_by_key(pairs) ==
    LET Before(k, j) == \/ StrLess(pairs[k][1], pairs[j][1])
                        \/ pairs[k][1] = pairs[j][1] /\ k < j
        Place(j) == 1 + Cardinality({k \in 1..Len(pairs) : Before(k, j)})
    IN  [i \in 1..Len(pairs) |-> pairs[CHOOSE j \in 1..Len(pairs) : Place(j) = i]]

\* the i-th character of a string, "" beyond its end
Char(str, i) == IF i \in 1..Len(str) THEN SubSeq(str, i, i) ELSE ""

\* the first n entries of a sequence (all of it when it is shorter)
Take(seq, n) == SubSeq(seq, 1, IF n < Len(seq) THEN n ELSE Len(seq))

\* the set of the entries of a sequence
Range(seq) == {seq[i] : i \in 1..Len(seq)}

\* HashMap::insert
MapInsert(m, k, v) == [x \in (DOMAIN m) \cup {k} |-> IF x = k THEN v ELSE m[x]]

\* the empty HashMap
EmptyMap == [x \in {} |-> ""]

\* ------------------------------------------------------------------------
\* The universe the inputs are drawn from
\* ------------------------------------------------------------------------

\* enum Permission
Permission == {"Allowed", "Denied", "AskEveryTime"}

\* the names PermissionManager::new() seeds the allow set with
SeededEnvVars ==
    {"HOME", "PATH", "USER", "SHELL", "TERM", "LANG", "EDITOR", "COLORTERM",
     "RUSTUP_HOME", "CARGO_HOME", "RUST_BACKTRACE", "RUSTC", "RUSTDOC"}

\* every variable name of the model, ascending in byte order (String::cmp)
SortedEnvNames ==
    <<"CARGO_HOME", "COLORTERM", "EDITOR", "FOO", "HOME", "LANG", "PATH",
      "PWD", "RUSTC", "RUSTDOC", "RUSTUP_HOME", "RUST_BACKTRACE", "SECRET",
      "SHELL", "TERM", "USER">>

\* names typed after allow / deny: a seeded one and unseeded ones
EnvNameArgs == Range(Take(<<"SECRET", "HOME", "FOO", "PWD", "TERM">>, NumEnvNames))

\* keys and values typed after export
CustomKeys == Range(Take(<<"FOO", "SECRET", "PWD", "HOME">>, NumCustomKeys))
CustomValues == Range(Take(<<"x", "s3cr3t", "[REDACTED by user", "", "/h", "y">>, NumCustomValues))

\* the text get_allowed_env_vars puts in place of a value that needs permission
REDACTED == "[REDACTED - use 'allow' command]"

\* the process environments the shell may be started in (env::vars()):
\* HOME set or not, a variable whose real value begins with "[REDACTED"
ProcEnvs ==
    { [k \in {"HOME", "PATH", "SECRET", "FOO", "PWD"} |->
          CASE k = "HOME" -> "/h"
            [] k = "PATH" -> "/usr/bin"
            [] k = "SECRET" -> "s3cr3t"
            [] k = "FOO" -> "bar"
            [] OTHER -> "/old"],
      [k \in {"PATH", "SECRET", "FOO", "TERM"} |->
          CASE k = "PATH" -> "/usr/bin"
            [] k = "SECRET" -> "s3cr3t"
            [] k = "FOO" -> "[REDACTED] is how this value begins"
            [] OTHER -> "xterm"] }

\* path strings typed after allowpath / denypath
PathArgs == Range(Take(<<"~/a", "/h/a/s", "/h/a", "/h", "/tmp/d", "~">>, NumPathArgs))

\* the configurations the shell may be started with (Config::load)
Configs ==
    { [interactive_commands |-> <<"vim">>,
       additional_allowed_paths |-> <<>>,
       denied_paths |-> <<>>],
      [interactive_commands |-> <<"vim">>,
       additional_allowed_paths |-> <<"~/a", "/h/.ssh">>,
       denied_paths |-> <<"~/.ssh">>] }

\* the directories the shell may be started in
WorkDirs == {"/h/w", "/h", "/tmp/d/inside"}

\* a directory whose name is not valid UTF-8 (the text stands for its bytes)
NonUtf8Dir == "/h/w/<0xFF>"

\* a file system: system directories (no /lib64), the home directory /h with a
\* dotfile, an allowed directory /h/a with a file s, a project /h/w, and the
\* inside / outside directories of scenario S6 under /tmp
Files ==
    {"/", "/usr", "/usr/bin/vim", "/bin", "/lib", "/etc", "/etc/passwd", "/dev",
     "/proc", "/sys", "/run", "/tmp", "/var/tmp", "/tmp/restricted.txt",
     "/tmp/d", "/tmp/d/inside", "/tmp/d/inside/f", "/tmp/d/outside", "/tmp/d/outside/f",
     "/h", "/h/.ssh", "/h/.ssh/id", "/h/a", "/h/a/s", "/h/w", "/h/w/f", NonUtf8Dir}

\* the file systems of the model: all of Files openable, or some directories
\* that exist but cannot be opened by the user
FileSystems ==
    { [exists |-> Files, unopenable |-> {}],
      [exists |-> Files, unopenable |-> {"/h/a", "/sys"}] }

\* the Landlock support of the kernel: none, ABI 3
KernelAbis == {0, 3}

\* the files a command tries to open, and how
ProbePaths ==
    {"/h/w/f", "/h/.ssh/id", "/h/a/s", "/tmp/d/inside/f", "/tmp/d/outside/f",
     "/tmp/restricted.txt", "/etc/passwd", "/nonexistent"}
ProbeRights == {"ReadFile", "WriteFile"}

\* the exit codes of a command (255 is what exit(-1) gives, after a signal)
ExitCodes == {0, 1, 255}

\* ------------------------------------------------------------------------
\* State
\* ------------------------------------------------------------------------

VARIABLES
    \* struct PermissionManager
    env_access_permission,  \* global permission for env access
    allowed_env_vars,       \* HashSet<String>
    denied_env_vars,        \* HashSet<String>
    allowed_paths,          \* HashSet<String>
    denied_paths,           \* HashSet<String>
    \* struct App
    custom_env,             \* HashMap<String, String>
    config,                 \* struct Config, read once at startup
    \* what the operating system gives the shell process
    proc_env,               \* env::vars(), a map from name to value
    current_dir,            \* env::current_dir()
    fs_exists,              \* the paths Path::exists() finds
    fs_unopenable,          \* the paths File::open() fails on
    kernel_abi,             \* the highest Landlock ABI the kernel supports, 0 = none
    \* the value the last call of check_env_var returned: <<>> or <<[name, permission]>>
    last_check

perm_vars == <<env_access_permission, allowed_env_vars, denied_env_vars,
               allowed_paths, denied_paths>>
app_vars == <<custom_env, config>>
os_vars == <<proc_env, current_dir, fs_exists, fs_unopenable, kernel_abi>>

\* ------------------------------------------------------------------------
\* PermissionManager (src/security/permissions.rs)
\* ------------------------------------------------------------------------

\* expand_tilde: a leading ~ becomes $HOME when HOME is set
expand_tilde(path) ==
    IF (StartsWith(path, "~/") \/ path = "~") /\ "HOME" \in DOMAIN proc_env
    THEN proc_env["HOME"] \o SubSeq(path, 2, Len(path))
    ELSE path

\* a plausible slip: the explicit deny set is consulted after the global policy
check_env_var_policy_first(var_name) ==
    IF env_access_permission = "Allowed" THEN "Allowed"
    ELSE IF var_name \in denied_env_vars THEN "Denied"
    ELSE IF var_name \in allowed_env_vars THEN "Allowed"
    ELSE env_access_permission

\* a plausible slip: the explicit allow set is forgotten
check_env_var_no_allow(var_name) ==
    IF var_name \in denied_env_vars THEN "Denied" ELSE env_access_permission

\* check_env_var(&self, var_name) -> Permission
check_env_var(var_name) ==
    IF var_name \in denied_env_vars THEN "Denied"
    ELSE IF var_name \in allowed_env_vars THEN "Allowed"
    ELSE env_access_permission

\* set_env_access(&mut self, permission)
set_env_access(permission) ==
    /\ env_access_permission' = permission
    /\ UNCHANGED <<allowed_env_vars, denied_env_vars, allowed_paths, denied_paths>>

\* a plausible slip: the name is not taken out of the deny set
allow_env_var_no_remove(var_name) ==
    /\ allowed_env_vars' = allowed_env_vars \cup {var_name}
    /\ UNCHANGED <<env_access_permission, denied_env_vars, allowed_paths, denied_paths>>

\* allow_env_var(&mut self, var_name)
allow_env_var(var_name) ==
    /\ denied_env_vars' = denied_env_vars \ {var_name}
    /\ allowed_env_vars' = allowed_env_vars \cup {var_name}
    /\ UNCHANGED <<env_access_permission, allowed_paths, denied_paths>>

\* a plausible slip: deny only takes the name out of the allow set
deny_env_var_only_revokes(var_name) ==
    /\ allowed_env_vars' = allowed_env_vars \ {var_name}
    /\ UNCHANGED <<env_access_permission, denied_env_vars, allowed_paths, denied_paths>>

\* deny_env_var(&mut self, var_name)
deny_env_var(var_name) ==
    /\ allowed_env_vars' = allowed_env_vars \ {var_name}
    /\ denied_env_vars' = denied_env_vars \cup {var_name}
    /\ UNCHANGED <<env_access_permission, allowed_paths, denied_paths>>

\* a plausible slip: the path is taken out of the deny set as it was typed
allow_path_removes_unexpanded(path) ==
    /\ denied_paths' = denied_paths \ {path}
    /\ allowed_paths' = allowed_paths \cup {expand_tilde(path)}
    /\ UNCHANGED <<env_access_permission, allowed_env_vars, denied_env_vars>>

\* allow_path(&mut self, path)
allow_path(path) ==
    /\ denied_paths' = denied_paths \ {expand_tilde(path)}
    /\ allowed_paths' = allowed_paths \cup {expand_tilde(path)}
    /\ UNCHANGED <<env_access_permission, allowed_env_vars, denied_env_vars>>

\* deny_path(&mut self, path)
\* a plausible slip: the path is recorded as it was typed
deny_path_unexpanded(path) ==
    /\ allowed_paths' = allowed_paths \ {path}
    /\ denied_paths' = denied_paths \cup {path}
    /\ UNCHANGED <<env_access_permission, allowed_env_vars, denied_env_vars>>

deny_path(path) ==
    /\ allowed_paths' = allowed_paths \ {expand_tilde(path)}
    /\ denied_paths' = denied_paths \cup {expand_tilde(path)}
    /\ UNCHANGED <<env_access_permission, allowed_env_vars, denied_env_vars>>

\* ------------------------------------------------------------------------
\* The processes of one command
\* ------------------------------------------------------------------------

VARIABLES
    shell_pc,             \* the shell: "idle", "captured" (in Command::output), "waitpid"
    child_pc,             \* the forked child: "none", "forked", "restricted", "built",
                          \* "running" (waiting in Command::status), "exited"
    child_allowed_paths,  \* the child's Vec<String> allowed_paths
    isolation_status,     \* the isolation_status of the child of the last invocation,
                          \* "" before it is set
    command_env,          \* the environment of the Command being built or run
    landlock,             \* the Landlock domain of the shell and of the child
    last_access,          \* the last file access of the running command: <<>> or <<[...]>>
    trace,                \* the steps of the interactive invocation so far: <<who, what>>,
                          \* who one of "shell", "child", "command"
    exit_status,          \* the child's exit code as waitpid sees it: <<>> or <<code>>
    exec_result,          \* what execute_interactive returned last: <<>> or <<result>>
    handling              \* handle_command between process_input and the match on its
                          \* result: <<>> or <<[input, action]>>, action <<>> for None

proc_vars == <<shell_pc, child_pc, child_allowed_paths, isolation_status, command_env,
               landlock, last_access, trace, exit_status, exec_result>>

\* ------------------------------------------------------------------------
\* The terminal of the shell
\* ------------------------------------------------------------------------

VARIABLES
    \* struct InputEditor
    history,              \* Vec<String>, the commands entered so far
    \* struct TerminalRenderer
    output_buffer,        \* Vec<String>
    last_printed_index,   \* usize
    \* the calls of add_to_history so far, the last two of them:
    \* <<[command, before]>>, before the history the call found
    history_calls,
    \* what the last call of get_new_output came to: <<>> before the first call,
    \* <<[kind |-> "Ok", lines]>> or <<[kind |-> "Panic", lines |-> <<>>]>>
    new_output,
    \* the terminal
    stdin_tty,            \* io::stdin().is_tty(): TRUE in interactive mode
    raw_mode              \* TRUE while the terminal is in raw mode

renderer_vars == <<history, output_buffer, last_printed_index, history_calls, new_output>>
term_vars == <<renderer_vars, stdin_tty, raw_mode>>

\* crossterm's enable_raw_mode(): whether the call succeeds. On the terminal
\* that App::run has put into raw mode before it succeeds again; when stdin is
\* no terminal it succeeds if the process has a controlling terminal to act on
\* and fails otherwise
enable_raw_mode == IF stdin_tty THEN {TRUE} ELSE BOOLEAN

\* src/config.rs
PROMPT == "dshell> "
WELCOME_MESSAGE == "Welcome to dshell terminal!"
MAX_HISTORY_SIZE == 1000

vars == <<perm_vars, app_vars, os_vars, term_vars, last_check, proc_vars, handling>>

\* ------------------------------------------------------------------------
\* Landlock (src/security/landlock.rs)
\* ------------------------------------------------------------------------

\* AccessFs::from_all(abi): the filesystem rights ABI version abi knows
AccessFs_from_all(abi) ==
    {"Execute", "WriteFile", "ReadFile", "ReadDir", "RemoveDir", "RemoveFile",
     "MakeChar", "MakeDir", "MakeReg", "MakeSock", "MakeFifo", "MakeBlock", "MakeSym"}
    \cup (IF abi >= 2 THEN {"Refer"} ELSE {})
    \cup (IF abi >= 3 THEN {"Truncate"} ELSE {})

\* get_abi_version: V4, V3, V2, V1 are tried in this order; 0 stands for None
get_abi_version == IF kernel_abi >= 4 THEN 4 ELSE kernel_abi

ro_access == {"Execute", "ReadFile", "ReadDir"}
readonly_paths == <<"/usr", "/bin", "/lib", "/lib64", "/etc", "/dev", "/proc", "/sys", "/run">>
readwrite_system_paths == <<"/tmp", "/var/tmp">>

\* a relative path is resolved against the working directory of the process
Absolute(path) == IF StartsWith(path, "/") THEN path ELSE current_dir \o "/" \o path

\* Path::exists()
PathExists(path) == Absolute(path) \in fs_exists

\* File::open(path).is_ok()
CanOpen(path) == PathExists(path) /\ Absolute(path) \notin fs_unopenable

\* path is dir or lies beneath it (the hierarchy a path-beneath rule covers)
Beneath(path, dir) == path = dir \/ dir = "/" \/ StartsWith(path, dir \o "/")

\* a plausible slip: the home directory is taken for a system path
RulesetRules_home(work_dir, additional_allowed_paths) ==
    {[path |-> Absolute(p), access |-> ro_access] :
        p \in {q \in Range(readonly_paths) \cup {expand_tilde("~")} : PathExists(q) /\ CanOpen(q)}}
    \cup {[path |-> Absolute(p), access |-> AccessFs_from_all(get_abi_version)] :
        p \in {q \in Range(readwrite_system_paths) : PathExists(q) /\ CanOpen(q)}}
    \cup {[path |-> Absolute(expand_tilde(p)), access |-> AccessFs_from_all(get_abi_version)] :
        p \in {q \in Range(additional_allowed_paths) :
                  PathExists(expand_tilde(q)) /\ CanOpen(expand_tilde(q))}}
    \cup {[path |-> Absolute(work_dir), access |-> AccessFs_from_all(get_abi_version)]}

\* a plausible slip: an allowed path is given the read-only rights
RulesetRules_extras_ro(work_dir, additional_allowed_paths) ==
    {[path |-> Absolute(p), access |-> ro_access] :
        p \in {q \in Range(readonly_paths) : PathExists(q) /\ CanOpen(q)}}
    \cup {[path |-> Absolute(p), access |-> AccessFs_from_all(get_abi_version)] :
        p \in {q \in Range(readwrite_system_paths) : PathExists(q) /\ CanOpen(q)}}
    \cup {[path |-> Absolute(expand_tilde(p)), access |-> ro_access] :
        p \in {q \in Range(additional_allowed_paths) :
                  PathExists(expand_tilde(q)) /\ CanOpen(expand_tilde(q))}}
    \cup {[path |-> Absolute(work_dir), access |-> AccessFs_from_all(get_abi_version)]}

\* the rules restrict_filesystem adds when every add_rule succeeds: a system or
\* allowed path gets its rule when it exists and File::open succeeds on it
RulesetRules(work_dir, additional_allowed_paths) ==
    {[path |-> Absolute(p), access |-> ro_access] :
        p \in {q \in Range(readonly_paths) : PathExists(q) /\ CanOpen(q)}}
    \cup {[path |-> Absolute(p), access |-> AccessFs_from_all(get_abi_version)] :
        p \in {q \in Range(readwrite_system_paths) : PathExists(q) /\ CanOpen(q)}}
    \cup {[path |-> Absolute(expand_tilde(p)), access |-> AccessFs_from_all(get_abi_version)] :
        p \in {q \in Range(additional_allowed_paths) :
                  PathExists(expand_tilde(q)) /\ CanOpen(expand_tilde(q))}}
    \cup {[path |-> Absolute(work_dir), access |-> AccessFs_from_all(get_abi_version)]}

\* a process no Landlock ruleset restricts
NoDomain == [enforced |-> FALSE, handled |-> {}, rules |-> {}]

\* a plausible slip: restrict_self is called before the working directory is
\* opened, so an Err leaves the process in a domain without the work_dir rule
restrict_filesystem_restricts_early(work_dir, additional_allowed_paths) ==
    IF get_abi_version = 0
    THEN {[result |-> "NotAvailable", domain |-> NoDomain]}
    ELSE {[result |-> "Err",
           domain |-> [enforced |-> TRUE,
                       handled |-> AccessFs_from_all(get_abi_version),
                       rules |-> RulesetRules(work_dir, additional_allowed_paths)
                                 \ {[path |-> Absolute(work_dir),
                                     access |-> AccessFs_from_all(get_abi_version)]}]]}
         \cup (IF CanOpen(work_dir)
               THEN {[result |-> status,
                      domain |-> IF status = "NotEnforced" THEN NoDomain
                                 ELSE [enforced |-> TRUE,
                                       handled |-> AccessFs_from_all(get_abi_version),
                                       rules |-> RulesetRules(work_dir, additional_allowed_paths)]] :
                        status \in {"FullyEnforced", "PartiallyEnforced", "NotEnforced"}}
               ELSE {})

\* restrict_filesystem(&self, additional_allowed_paths) -> io::Result<IsolationStatus>:
\* the results it may return and the domain the calling process is in afterwards.
\* Creating the ruleset, add_rule and restrict_self are calls into the landlock
\* crate and the kernel: each may fail, and restrict_self reports the status.
restrict_filesystem(work_dir, additional_allowed_paths) ==
    IF get_abi_version = 0
    THEN {[result |-> "NotAvailable", domain |-> NoDomain]}
    ELSE {[result |-> "Err", domain |-> NoDomain]}
         \cup (IF CanOpen(work_dir)
               THEN {[result |-> status,
                      domain |-> IF status = "NotEnforced" THEN NoDomain
                                 ELSE [enforced |-> TRUE,
                                       handled |-> AccessFs_from_all(get_abi_version),
                                       rules |-> RulesetRules(work_dir, additional_allowed_paths)]] :
                        status \in {"FullyEnforced", "PartiallyEnforced", "NotEnforced"}}
               ELSE {})

\* IsolationStatus::is_enforced
is_enforced(status) == status \in {"FullyEnforced", "PartiallyEnforced"}

\* what the kernel answers when a process in `domain` asks for `right` on `path`
Permits(domain, path, right) ==
    \/ ~domain.enforced
    \/ right \notin domain.handled
    \/ \E rule \in domain.rules : Beneath(path, rule.path) /\ right \in rule.access

\* ------------------------------------------------------------------------
\* Executor (src/shell/executor.rs)
\* ------------------------------------------------------------------------

\* env::vars(): the (name, value) pairs of the process environment, in the
\* order of the environment block (here: names descending; the order does not
\* reach the caller, who sorts)
env_vars ==
    LET names == SelectSeq(SortedEnvNames, LAMBDA k : k \in DOMAIN proc_env)
    IN  [i \in 1..Len(names) |->
            <<names[Len(names) + 1 - i], proc_env[names[Len(names) + 1 - i]]>>]

\* a plausible slip: a variable that needs permission is passed with its value
PushPermitted_unredacted(pairs) ==
    LET kept == SelectSeq(pairs, LAMBDA kv : check_env_var(kv[1]) # "Denied")
    IN  [i \in 1..Len(kept) |-> <<kept[i][1], kept[i][2]>>]

\* a plausible slip: the Denied arm pushes the variable like the Allowed arm
PushPermitted_denied(pairs) ==
    [i \in 1..Len(pairs) |->
        <<pairs[i][1], IF check_env_var(pairs[i][1]) = "AskEveryTime" THEN REDACTED
                       ELSE pairs[i][2]>>]

\* for (key, value) in env::vars() { match self.check_env_var(&key) { ... } }:
\* what is pushed to result, in iteration order
PushPermitted(pairs) ==
    LET kept == SelectSeq(pairs, LAMBDA kv : check_env_var(kv[1]) # "Denied")
    IN  [i \in 1..Len(kept) |->
            <<kept[i][1], IF check_env_var(kept[i][1]) = "Allowed" THEN kept[i][2]
                          ELSE REDACTED>>]

\* get_allowed_env_vars(&self) -> Vec<(String, String)>
get_allowed_env_vars == sort_by_key(PushPermitted(env_vars))

\* for (key, value) in custom_env { command.env(key, value) }
AddCustomEnv(env) ==
    [k \in (DOMAIN env) \cup (DOMAIN custom_env) |->
        IF k \in DOMAIN custom_env THEN custom_env[k] ELSE env[k]]

\* for (key, value) in permissions.get_allowed_env_vars() {
\*     if !value.starts_with("[REDACTED") && !custom_env.contains_key(&key) { command.env(key, value) } }
RECURSIVE AddSystemEnv(_, _)
AddSystemEnv(env, pairs) ==
    IF pairs = <<>> THEN env
    ELSE LET key == Head(pairs)[1]
             value == Head(pairs)[2]
         IN  AddSystemEnv(IF ~StartsWith(value, "[REDACTED") /\ key \notin DOMAIN custom_env
                          THEN MapInsert(env, key, value)
                          ELSE env,
                          Tail(pairs))

\* the names execute_in_isolated_child sets itself
FixedEnvNames == {"PWD", "DSHELL_RESTRICTED", "DSHELL_RESTRICTED_ROOT", "DSHELL_ISOLATION_STATUS"}

\* the name of a status in DSHELL_ISOLATION_STATUS
StatusName(status) ==
    CASE status = "FullyEnforced" -> "fully_enforced"
      [] status = "PartiallyEnforced" -> "partially_enforced"
      [] status = "NotEnforced" -> "not_enforced"
      [] OTHER -> "not_available"

\* Path::to_str(): <<>> (None) for a path that is not valid UTF-8
to_str(path) == IF path = NonUtf8Dir THEN <<>> ELSE <<path>>

\* if let Some(pwd) = work_dir.to_str() { command.env("PWD", pwd) ...
\*     command.env("DSHELL_ISOLATION_STATUS", ...) }
FixedEnv(work_dir, status) ==
    IF to_str(work_dir) = <<>> THEN EmptyMap
    ELSE [k \in FixedEnvNames |->
            CASE k = "PWD" -> to_str(work_dir)[1]
              [] k = "DSHELL_RESTRICTED" -> "1"
              [] k = "DSHELL_RESTRICTED_ROOT" -> to_str(work_dir)[1]
              [] OTHER -> StatusName(status)]

\* a plausible slip: command.env_clear() is forgotten, the command inherits
CapturedEnv_no_clear == AddSystemEnv(AddCustomEnv(proc_env), get_allowed_env_vars)

\* the environment execute_captured gives the Command
CapturedEnv == AddSystemEnv(AddCustomEnv(EmptyMap), get_allowed_env_vars)

\* the environment execute_in_isolated_child gives the Command
InteractiveEnv(work_dir, status) ==
    AddSystemEnv(AddCustomEnv(FixedEnv(work_dir, status)), get_allowed_env_vars)

\* a plausible slip: the denied set is compared with the unexpanded config entry
ConfigAllowed_unexpanded(paths) ==
    SelectSeq(paths, LAMBDA path : path \notin denied_paths)

\* for path in &config.additional_allowed_paths { ... if !denied_paths_set.contains(&expanded)
\*     { allowed_paths.push(path.clone()) } }: the entries that are kept, in order
ConfigAllowed(paths) ==
    SelectSeq(paths, LAMBDA path : expand_tilde(path) \notin denied_paths)

\* the orders a HashSet may be iterated in
Orders(set) ==
    {seq \in [1..Cardinality(set) -> set] : Range(seq) = set}

\* a plausible slip: a command is interactive when its file name is listed
execution_mode_by_basename(cmd) ==
    LET str == cmd.command
        slashes == {i \in 1..Len(str) : SubSeq(str, i, i) = "/"}
        basename == IF slashes = {} THEN str
                    ELSE SubSeq(str, 1 + CHOOSE i \in slashes : \A j \in slashes : i >= j,
                                Len(str))
    IN  IF \E i \in 1..Len(config.interactive_commands) :
               config.interactive_commands[i] = basename
        THEN "Interactive"
        ELSE "Captured"

\* execution_mode(cmd, config): "Interactive" when the command word is, as a
\* string, one of config.interactive_commands
execution_mode(cmd) ==
    IF \E i \in 1..Len(config.interactive_commands) : config.interactive_commands[i] = cmd.command
    THEN "Interactive"
    ELSE "Captured"

\* ------------------------------------------------------------------------
\* Parser (src/shell/parser.rs)
\* ------------------------------------------------------------------------

\* char::is_whitespace, for the characters of the model
WhiteSpace == {" ", "\t"}

\* char::is_whitespace
is_whitespace(c) == c \in WhiteSpace

\* char::is_alphanumeric
is_alphanumeric(c) ==
    \E i \in 1..Len("0123456789ABCDEFGHIJKLMNOPQRSTUVWXYZabcdefghijklmnopqrstuvwxyz") :
        SubSeq("0123456789ABCDEFGHIJKLMNOPQRSTUVWXYZabcdefghijklmnopqrstuvwxyz", i, i) = c

\* str::find(pattern): the index of the first character in `chars`, 0 for None
find(str, chars) ==
    LET hits == {i \in 1..Len(str) : SubSeq(str, i, i) \in chars}
    IN  IF hits = {} THEN 0 ELSE CHOOSE i \in hits : \A j \in hits : i <= j

\* str::trim_start
trim_start(str) ==
    LET other == {i \in 1..Len(str) : ~is_whitespace(SubSeq(str, i, i))}
    IN  IF other = {} THEN ""
        ELSE SubSeq(str, CHOOSE i \in other : \A j \in other : i <= j, Len(str))

\* str::trim_end
trim_end(str) ==
    LET other == {i \in 1..Len(str) : ~is_whitespace(SubSeq(str, i, i))}
    IN  IF other = {} THEN ""
        ELSE SubSeq(str, 1, CHOOSE i \in other : \A j \in other : i >= j)

\* str::trim
trim(str) == trim_end(trim_start(str))

\* str::split_whitespace, collected
RECURSIVE split_whitespace(_)
split_whitespace(str) ==
    LET rest == trim_start(str)
        stop == find(rest, WhiteSpace)
    IN  IF rest = "" THEN <<>>
        ELSE IF stop = 0 THEN <<rest>>
        ELSE <<SubSeq(rest, 1, stop - 1)>> \o split_whitespace(SubSeq(rest, stop, Len(rest)))

\* a plausible slip: raw_input keeps the line as it was typed
ParsedCommand_parse_untrimmed(input) ==
    IF trim(input) = "" THEN <<>>
    ELSE <<[command |-> split_whitespace(trim(input))[1],
            args |-> Tail(split_whitespace(trim(input))),
            raw_input |-> input]>>

\* ParsedCommand::parse(input) -> Option<ParsedCommand>: <<>> is None
ParsedCommand_parse(input) ==
    IF trim(input) = "" THEN <<>>
    ELSE <<[command |-> split_whitespace(trim(input))[1],
            args |-> Tail(split_whitespace(trim(input))),
            raw_input |-> trim(input)]>>

\* ------------------------------------------------------------------------
\* Builtins (src/shell/builtins.rs) and what they print
\* ------------------------------------------------------------------------

\* the marks the listings put before an entry (U+2713 and U+2717 in the source)
CheckMark == "<U+2713>"
CrossMark == "<U+2717>"

\* the elements of a HashSet in the order iter() gives them, which is one of
\* its orders and of no consequence where the result is sorted
RECURSIVE iter(_)
iter(set) ==
    IF set = {} THEN <<>>
    ELSE <<CHOOSE x \in set : TRUE>> \o iter(set \ {CHOOSE x \in set : TRUE})

\* Vec<String>::sort() after collect()
sorted(set) ==
    LET pairs == sort_by_key([i \in 1..Cardinality(set) |-> <<iter(set)[i]>>])
    IN  [i \in 1..Len(pairs) |-> pairs[i][1]]

\* list_allowed_env_vars, list_denied_env_vars, list_allowed_paths, list_denied_paths
list_allowed_env_vars == sorted(allowed_env_vars)
list_denied_env_vars == sorted(denied_env_vars)
list_allowed_paths == sorted(allowed_paths)
list_denied_paths == sorted(denied_paths)

\* the lines of one section of get_status
StatusSection(title, mark, entries) ==
    IF entries = <<>> THEN <<>>
    ELSE <<"", title>> \o [i \in 1..Len(entries) |-> "  " \o mark \o " " \o entries[i]]

\* get_status(&self) -> Vec<String>
get_status ==
    <<"Security Status:", "",
      "Global Env Access: " \o env_access_permission,
      "Allowed Env Vars: " \o ToString(Cardinality(allowed_env_vars)),
      "Denied Env Vars: " \o ToString(Cardinality(denied_env_vars))>>
    \o StatusSection("Explicitly Allowed Env Vars:", CheckMark, list_allowed_env_vars)
    \o StatusSection("Explicitly Denied Env Vars:", CrossMark, list_denied_env_vars)
    \o StatusSection("Allowed Filesystem Paths:", CheckMark, list_allowed_paths)
    \o StatusSection("Denied Filesystem Paths:", CrossMark, list_denied_paths)

\* Builtins::parse, the "export" arm: Export(key, value), None without a space
\* or an "=", and a panic on a value that is one quote character
parse_export(cmd) ==
    LET raw == cmd.raw_input
        first_space == find(raw, WhiteSpace)
        export_arg == trim_start(SubSeq(raw, first_space, Len(raw)))
        pos == find(export_arg, {"="})
        value_part == SubSeq(export_arg, pos + 1, Len(export_arg))
        quoted == \E q \in {"\"", "'"} :
                      /\ StartsWith(value_part, q)
                      /\ Char(value_part, Len(value_part)) = q
    IN  IF first_space = 0 \/ pos = 0 THEN <<>>
        ELSE IF quoted /\ Len(value_part) = 1 THEN <<[kind |-> "Panic"]>>
        ELSE <<[kind |-> "Export",
                key |-> trim(SubSeq(export_arg, 1, pos - 1)),
                value |-> IF quoted THEN SubSeq(value_part, 2, Len(value_part) - 1)
                          ELSE value_part]>>

\* Builtins::parse(cmd) -> Option<BuiltinCommand>: <<>> is None
Builtins_parse(cmd) ==
    CASE cmd.command \in {"exit", "quit"} -> <<[kind |-> "Exit"]>>
      [] cmd.command \in {"clear", "cls"} -> <<[kind |-> "Clear"]>>
      [] cmd.command = "help" -> <<[kind |-> "Help"]>>
      [] cmd.command = "env" -> <<[kind |-> "Env"]>>
      [] cmd.command = "allow" ->
            IF cmd.args = <<>> THEN <<[kind |-> "AllowAll"]>>
            ELSE <<[kind |-> "Allow", var |-> cmd.args[1]]>>
      [] cmd.command = "deny" ->
            IF cmd.args = <<>> THEN <<[kind |-> "DenyAll"]>>
            ELSE <<[kind |-> "Deny", var |-> cmd.args[1]]>>
      [] cmd.command \in {"security", "status"} -> <<[kind |-> "SecurityStatus"]>>
      [] cmd.command = "export" -> parse_export(cmd)
      [] cmd.command = "echo" -> <<[kind |-> "Echo", args |-> cmd.args]>>
      [] cmd.command = "allowpath" ->
            IF cmd.args = <<>> THEN <<>>
            ELSE <<[kind |-> "AllowPath", path |-> cmd.args[1]]>>
      [] cmd.command = "denypath" ->
            IF cmd.args = <<>> THEN <<>>
            ELSE <<[kind |-> "DenyPath", path |-> cmd.args[1]]>>
      [] cmd.command \in {"listallowpath", "listpaths"} -> <<[kind |-> "ListAllowedPaths"]>>
      [] OTHER -> <<>>

\* get_var_value(var_name, permissions, custom_env): custom_env first, then the
\* variables get_allowed_env_vars passes with a value that is not redacted
get_var_value(var_name) ==
    IF var_name \in DOMAIN custom_env THEN custom_env[var_name]
    ELSE LET hits == SelectSeq(get_allowed_env_vars,
                               LAMBDA kv : kv[1] = var_name /\ ~StartsWith(kv[2], "[REDACTED"))
         IN  IF hits = <<>> THEN "" ELSE hits[1][2]

\* the length of the longest prefix of str made of name characters
RECURSIVE NameLength(_)
NameLength(str) ==
    IF str # "" /\ (is_alphanumeric(SubSeq(str, 1, 1)) \/ SubSeq(str, 1, 1) = "_")
    THEN 1 + NameLength(SubSeq(str, 2, Len(str)))
    ELSE 0

\* expand_variables(s, permissions, custom_env): $VAR and ${VAR} are replaced
RECURSIVE expand_variables(_)
expand_variables(str) ==
    IF str = "" THEN ""
    ELSE IF SubSeq(str, 1, 1) # "$"
         THEN SubSeq(str, 1, 1) \o expand_variables(SubSeq(str, 2, Len(str)))
    ELSE IF Char(str, 2) = "{"
         THEN LET body == SubSeq(str, 3, Len(str))
                  close == find(body, {"}"})
              IN  IF close = 0 THEN get_var_value(body)
                  ELSE get_var_value(SubSeq(body, 1, close - 1))
                       \o expand_variables(SubSeq(body, close + 1, Len(body)))
    ELSE LET body == SubSeq(str, 2, Len(str))
         IN  get_var_value(SubSeq(body, 1, NameLength(body)))
             \o expand_variables(SubSeq(body, NameLength(body) + 1, Len(body)))

\* [String]::join(" ")
RECURSIVE join(_)
join(strs) ==
    IF strs = <<>> THEN ""
    ELSE IF Len(strs) = 1 THEN strs[1]
    ELSE strs[1] \o " " \o join(Tail(strs))

\* the lines `help` prints
HelpText ==
    <<"dshell - A Secure Shell written in Rust",
      "",
      "Built-in commands:",
      "  exit, quit       - Exit the shell",
      "  clear, cls       - Clear the screen",
      "  help             - Show this help message",
      "  env              - List environment variables (respects permissions)",
      "  export KEY=VALUE - Set environment variable",
      "  echo [args]      - Echo arguments (supports $VAR expansion)",
      "",
      "Security commands:",
      "  allow <VAR>           - Allow access to specific env variable",
      "  allow                 - Allow access to all env variables",
      "  deny <VAR>            - Deny access to specific env variable",
      "  deny                  - Deny access to all env variables",
      "  allowpath <PATH>      - Allow filesystem access to specific path",
      "  denypath <PATH>       - Deny filesystem access to specific path",
      "  listallowpath         - List all allowed filesystem paths",
      "  security, status      - Show current security status",
      "",
      "All other commands are executed as external programs.">>

\* the lines `env` prints
EnvText ==
    LET system == get_allowed_env_vars
        custom == sort_by_key([i \in 1..Cardinality(DOMAIN custom_env) |->
                                  <<iter(DOMAIN custom_env)[i],
                                    custom_env[iter(DOMAIN custom_env)[i]]>>])
    IN  <<"Environment Variables:", "">>
        \o [i \in 1..Len(system) |-> system[i][1] \o "=" \o system[i][2]]
        \o (IF custom = <<>> THEN <<>>
            ELSE <<"", "Custom Environment Variables:", "">>
                 \o [i \in 1..Len(custom) |-> custom[i][1] \o "=" \o custom[i][2]])
        \o <<"",
             "Showing: " \o ToString(Len(system)) \o " system + " \o ToString(Len(custom))
             \o " custom = " \o ToString(Len(system) + Len(custom))
             \o " total environment variables">>

\* the lines `listallowpath` prints
ListAllowedPathsText ==
    LET from_config == config.additional_allowed_paths
        dynamic_paths == list_allowed_paths
        Listing(paths) ==
            IF paths = <<>> THEN <<"  (none)">>
            ELSE [i \in 1..Len(paths) |-> "  " \o CheckMark \o " " \o paths[i]]
    IN  <<"Allowed Filesystem Paths:", "", "From config file:">>
        \o Listing(from_config)
        \o <<"", "Dynamically added (via allowpath command):">>
        \o Listing(dynamic_paths)
        \o <<"",
             "Total: " \o ToString(Len(from_config) + Len(dynamic_paths))
             \o " allowed path(s) (" \o ToString(Len(from_config)) \o " from config + "
             \o ToString(Len(dynamic_paths)) \o " dynamic)">>

\* Builtins::execute(builtin, permissions, custom_env, config) -> Vec<String>,
\* for the builtins process_input executes
Builtins_execute(builtin) ==
    CASE builtin.kind = "Help" -> HelpText
      [] builtin.kind = "Env" -> EnvText
      [] builtin.kind = "SecurityStatus" -> get_status
      [] builtin.kind = "Echo" ->
            <<join([i \in 1..Len(builtin.args) |-> expand_variables(builtin.args[i])])>>
      [] builtin.kind = "ListAllowedPaths" -> ListAllowedPathsText
      [] OTHER -> <<>>

\* ------------------------------------------------------------------------
\* Dispatch (Shell::process_input, src/shell/mod.rs)
\* ------------------------------------------------------------------------

\* process_input(input, permissions, custom_env, config) -> Option<CommandAction>
process_input(input) ==
    LET parsed == ParsedCommand_parse(input)
        builtin == Builtins_parse(parsed[1])
    IN  IF parsed = <<>> THEN <<>>
        ELSE IF builtin # <<>>
             THEN CASE builtin[1].kind = "Exit" -> <<[kind |-> "Exit"]>>
                    [] builtin[1].kind = "Clear" -> <<[kind |-> "ClearScreen"]>>
                    [] builtin[1].kind \in {"Help", "Env", "SecurityStatus", "Echo",
                                            "ListAllowedPaths"} ->
                          <<[kind |-> "ShowOutput", lines |-> Builtins_execute(builtin[1])]>>
                    [] builtin[1].kind = "Allow" ->
                          <<[kind |-> "AllowEnvVar", var |-> builtin[1].var]>>
                    [] builtin[1].kind = "Deny" ->
                          <<[kind |-> "DenyEnvVar", var |-> builtin[1].var]>>
                    [] builtin[1].kind = "AllowAll" -> <<[kind |-> "AllowAllEnvVars"]>>
                    [] builtin[1].kind = "DenyAll" -> <<[kind |-> "DenyAllEnvVars"]>>
                    [] builtin[1].kind = "Export" ->
                          <<[kind |-> "SetEnvVar", key |-> builtin[1].key,
                             value |-> builtin[1].value]>>
                    [] builtin[1].kind = "AllowPath" ->
                          <<[kind |-> "AllowPath", path |-> builtin[1].path]>>
                    [] builtin[1].kind = "DenyPath" ->
                          <<[kind |-> "DenyPath", path |-> builtin[1].path]>>
                    [] OTHER -> <<[kind |-> "Panic"]>>
        ELSE IF execution_mode(parsed[1]) = "Interactive"
             THEN <<[kind |-> "ExecuteInteractive", cmd |-> parsed[1]]>>
             ELSE <<[kind |-> "ExecuteCaptured", cmd |-> parsed[1]]>>

\* ------------------------------------------------------------------------
\* Steps of the shell between commands (App::handle_command, src/main.rs)
\* ------------------------------------------------------------------------

\* self.permissions.set_env_access(permission)
SetEnvAccess(permission) ==
    /\ shell_pc = "idle"
    /\ set_env_access(permission)
    /\ UNCHANGED <<app_vars, os_vars, term_vars, handling, last_check, proc_vars>>

\* CommandAction::AllowAllEnvVars
AllowAllEnvVars == SetEnvAccess("Allowed")

\* CommandAction::DenyAllEnvVars
DenyAllEnvVars == SetEnvAccess("Denied")

\* CommandAction::AllowEnvVar(var)
AllowEnvVar(var) ==
    /\ shell_pc = "idle"
    /\ allow_env_var(var)
    /\ UNCHANGED <<app_vars, os_vars, term_vars, handling, last_check, proc_vars>>

\* CommandAction::DenyEnvVar(var)
DenyEnvVar(var) ==
    /\ shell_pc = "idle"
    /\ deny_env_var(var)
    /\ UNCHANGED <<app_vars, os_vars, term_vars, handling, last_check, proc_vars>>

\* CommandAction::AllowPath(path)
AllowPath(path) ==
    /\ shell_pc = "idle"
    /\ allow_path(path)
    /\ UNCHANGED <<app_vars, os_vars, term_vars, handling, last_check, proc_vars>>

\* CommandAction::DenyPath(path)
DenyPath(path) ==
    /\ shell_pc = "idle"
    /\ deny_path(path)
    /\ UNCHANGED <<app_vars, os_vars, term_vars, handling, last_check, proc_vars>>

\* CommandAction::SetEnvVar(key, value)
SetEnvVar(key, value) ==
    /\ shell_pc = "idle"
    /\ custom_env' = MapInsert(custom_env, key, value)
    /\ UNCHANGED <<perm_vars, config, os_vars, term_vars, handling, last_check, proc_vars>>

\* a call of check_env_var: the answer is kept, the manager is only read
CheckEnvVar(var_name) ==
    /\ shell_pc = "idle"
    /\ last_check' = <<[name |-> var_name, permission |-> check_env_var(var_name)]>>
    /\ UNCHANGED <<perm_vars, app_vars, os_vars, term_vars, handling, proc_vars>>

\* ------------------------------------------------------------------------
\* Captured execution (Executor::execute_captured)
\* ------------------------------------------------------------------------

\* command.env_clear() ... .output(): the command is spawned with the filtered
\* environment and the shell waits for its output
ExecuteCaptured ==
    /\ shell_pc = "idle"
    /\ shell_pc' = "captured"
    /\ command_env' = CapturedEnv
    /\ UNCHANGED <<perm_vars, app_vars, os_vars, term_vars, handling, last_check, child_pc, child_allowed_paths,
                   isolation_status, landlock, last_access, trace, exit_status, exec_result>>

\* the command ends and output() returns
CapturedDone ==
    /\ shell_pc = "captured"
    /\ shell_pc' = "idle"
    /\ command_env' = EmptyMap
    /\ last_access' = <<>>
    /\ UNCHANGED <<perm_vars, app_vars, os_vars, term_vars, handling, last_check, child_pc, child_allowed_paths,
                   isolation_status, landlock, trace, exit_status, exec_result>>

\* ------------------------------------------------------------------------
\* Interactive execution (Executor::execute_interactive)
\* ------------------------------------------------------------------------

\* main.rs 247-248: execute_interactive has returned to handle_command, which
\* calls enable_raw_mode()?; an error of the call ends handle_command and with it
\* the shell; pc is where the shell goes on otherwise
ReenableRawMode(pc) ==
    \E enabled \in enable_raw_mode :
        /\ raw_mode' = enabled
        /\ shell_pc' = IF enabled THEN pc ELSE "exited"

\* a plausible slip: the restriction is applied before the fork, in the shell
Fork_restricts_first ==
    /\ shell_pc = "idle"
    /\ shell_pc' = "waitpid"
    /\ child_pc' = "forked"
    /\ \E out \in restrict_filesystem(current_dir, <<>>) :
         landlock' = [p \in {"shell", "child"} |-> out.domain]
    /\ trace' = << <<"shell", "restrict_filesystem">>, <<"shell", "fork">> >>
    /\ exec_result' = <<>>
    /\ isolation_status' = ""
    /\ raw_mode' = FALSE
    /\ UNCHANGED <<perm_vars, app_vars, os_vars, renderer_vars, stdin_tty, handling,
                   last_check, child_allowed_paths,
                   command_env, last_access, exit_status>>

\* libc::fork() succeeds: the child starts as a copy of the shell, which goes on
\* to libc::waitpid and stays there until the child is gone, so what the child
\* reads of the permissions, custom_env and config is what the shell holds
Fork ==
    /\ shell_pc = "idle"
    /\ shell_pc' = "waitpid"
    /\ child_pc' = "forked"
    /\ trace' = <<<<"shell", "fork">>>>
    /\ exec_result' = <<>>
    /\ isolation_status' = ""
    /\ raw_mode' = FALSE
    /\ UNCHANGED <<perm_vars, app_vars, os_vars, renderer_vars, stdin_tty, handling,
                   last_check, child_allowed_paths,
                   command_env, landlock, last_access, exit_status>>

\* libc::fork() returns -1: Err(err) goes back to handle_command
ForkFails ==
    /\ shell_pc = "idle"
    /\ exec_result' = <<"Err">>
    /\ ReenableRawMode(shell_pc)
    /\ UNCHANGED <<perm_vars, app_vars, os_vars, renderer_vars, stdin_tty, handling,
                   last_check, child_pc,
                   child_allowed_paths, isolation_status, command_env, landlock,
                   last_access, trace, exit_status>>

\* a plausible slip: the child gives up when the restriction cannot be applied
ChildRestrict_gives_up ==
    /\ child_pc = "forked"
    /\ \E order \in Orders(allowed_paths) :
         LET list == order \o ConfigAllowed(config.additional_allowed_paths)
         IN  \E out \in restrict_filesystem(current_dir, list) :
               /\ child_allowed_paths' = list
               /\ isolation_status' = IF out.result = "Err" THEN "NotEnforced" ELSE out.result
               /\ landlock' = [landlock EXCEPT !["child"] = out.domain]
               /\ child_pc' = IF out.result \in {"Err", "NotAvailable"} THEN "exited"
                              ELSE "restricted"
               /\ exit_status' = IF out.result \in {"Err", "NotAvailable"} THEN <<1>>
                                 ELSE exit_status
    /\ trace' = Append(trace, <<"child", "restrict_filesystem">>)
    /\ UNCHANGED <<perm_vars, app_vars, os_vars, term_vars, handling, last_check, shell_pc, command_env,
                   last_access, exec_result>>

\* execute_in_isolated_child, lines 162-221: the allow-list is put together and
\* restrict_filesystem is called on it; an Err counts as NotEnforced
ChildRestrict ==
    /\ child_pc = "forked"
    /\ \E order \in Orders(allowed_paths) :
         LET list == order \o ConfigAllowed(config.additional_allowed_paths)
         IN  \E out \in restrict_filesystem(current_dir, list) :
               /\ child_allowed_paths' = list
               /\ isolation_status' = IF out.result = "Err" THEN "NotEnforced" ELSE out.result
               /\ landlock' = [landlock EXCEPT !["child"] = out.domain]
    /\ child_pc' = "restricted"
    /\ trace' = Append(trace, <<"child", "restrict_filesystem">>)
    /\ UNCHANGED <<perm_vars, app_vars, os_vars, term_vars, handling, last_check, shell_pc, command_env,
                   last_access, exit_status, exec_result>>

\* lines 223-254: the Command is built with a cleared, filtered environment
ChildBuildCommand ==
    /\ child_pc = "restricted"
    /\ child_pc' = "built"
    /\ command_env' = InteractiveEnv(current_dir, isolation_status)
    /\ trace' = Append(trace, <<"child", "env">>)
    /\ UNCHANGED <<perm_vars, app_vars, os_vars, term_vars, handling, last_check, shell_pc, child_allowed_paths,
                   isolation_status, landlock, last_access, exit_status, exec_result>>

\* lines 257-263: status() starts the command as a process of its own, which
\* inherits the domain of the child, sets the working directory and execs; the
\* child waits for it
ChildSpawn ==
    /\ child_pc = "built"
    /\ child_pc' = "running"
    /\ trace' = trace \o << <<"child", "spawn">>, <<"command", "chdir">>,
                            <<"command", "exec">> >>
    /\ UNCHANGED <<perm_vars, app_vars, os_vars, term_vars, handling, last_check, shell_pc, child_allowed_paths,
                   isolation_status, command_env, landlock, last_access, exit_status,
                   exec_result>>

\* lines 264-298: status() fails, the child exits with 127
ChildSpawnFails ==
    /\ child_pc = "built"
    /\ child_pc' = "exited"
    /\ exit_status' = <<127>>
    /\ UNCHANGED <<perm_vars, app_vars, os_vars, term_vars, handling, last_check, shell_pc, child_allowed_paths,
                   isolation_status, command_env, landlock, last_access, trace, exec_result>>

\* the running command opens a file for reading or writing; it runs in the
\* domain of the process that spawned it
CommandAccess(path, right) ==
    /\ \/ child_pc = "running"
       \/ shell_pc = "captured"
    /\ LET domain == IF shell_pc = "captured" THEN landlock["shell"] ELSE landlock["child"]
       IN  last_access' = <<[path |-> path, right |-> right,
                             result |-> IF path \notin fs_exists THEN "ENOENT"
                                        ELSE IF Permits(domain, path, right) THEN "ok"
                                        ELSE "EACCES"]>>
    /\ UNCHANGED <<perm_vars, app_vars, os_vars, term_vars, handling, last_check, shell_pc, child_pc,
                   child_allowed_paths, isolation_status, command_env, landlock, trace,
                   exit_status, exec_result>>

\* the ways a command ends: it exits with a code, or a signal ends it
CommandEndings ==
    {[kind |-> "exited", code |-> c] : c \in ExitCodes} \cup {[kind |-> "signaled", code |-> 9]}

\* ExitStatus::code(): Some(code) of a command that exited, None after a signal
ExitStatus_code(ending) == IF ending.kind = "exited" THEN <<ending.code>> ELSE <<>>

\* Option::unwrap_or
unwrap_or(option, default) == IF option = <<>> THEN default ELSE option[1]

\* the code the parent sees of a process that called exit(status): the low byte
WEXITSTATUS(status) == status % 256

\* a plausible slip: the child reports success however the command ended
CommandEnds_zero(ending) ==
    /\ child_pc = "running"
    /\ child_pc' = "exited"
    /\ exit_status' = <<0>>
    /\ last_access' = <<>>
    /\ trace' = Append(trace, <<"command", ending.kind>>)
    /\ UNCHANGED <<perm_vars, app_vars, os_vars, term_vars, handling, last_check, shell_pc, child_allowed_paths,
                   isolation_status, command_env, landlock, exec_result>>

\* line 263 and 298: the command ends, status() returns Ok(s), and the child
\* calls exit(s.code().unwrap_or(-1))
CommandEnds(ending) ==
    /\ child_pc = "running"
    /\ child_pc' = "exited"
    /\ exit_status' = <<WEXITSTATUS(unwrap_or(ExitStatus_code(ending), -1))>>
    /\ last_access' = <<>>
    /\ trace' = Append(trace, <<"command", ending.kind>>)
    /\ UNCHANGED <<perm_vars, app_vars, os_vars, term_vars, handling, last_check, shell_pc, child_allowed_paths,
                   isolation_status, command_env, landlock, exec_result>>

\* the command exits with `code`
CommandExit(code) == CommandEnds([kind |-> "exited", code |-> code])

\* a plausible slip: the status the child obtained is what goes back
Reap_reports_status ==
    /\ shell_pc = "waitpid"
    /\ child_pc = "exited"
    /\ ReenableRawMode("idle")
    /\ child_pc' = "none"
    /\ child_allowed_paths' = <<>>
    /\ UNCHANGED isolation_status
    /\ command_env' = EmptyMap
    /\ landlock' = [landlock EXCEPT !["child"] = NoDomain]
    /\ trace' = <<>>
    /\ exit_status' = <<>>
    /\ exec_result' = <<"Ok(" \o isolation_status \o ")">>
    /\ UNCHANGED <<perm_vars, app_vars, os_vars, renderer_vars, stdin_tty, handling,
                   last_check, last_access>>

\* lines 128-150: waitpid returns, the child is gone, Ok(NotEnforced) goes back
Reap ==
    /\ shell_pc = "waitpid"
    /\ child_pc = "exited"
    /\ ReenableRawMode("idle")
    /\ child_pc' = "none"
    /\ child_allowed_paths' = <<>>
    /\ UNCHANGED isolation_status
    /\ command_env' = EmptyMap
    /\ landlock' = [landlock EXCEPT !["child"] = NoDomain]
    /\ trace' = <<>>
    /\ exit_status' = <<>>
    /\ exec_result' = <<"Ok(NotEnforced)">>
    /\ UNCHANGED <<perm_vars, app_vars, os_vars, renderer_vars, stdin_tty, handling,
                   last_check, last_access>>

\* ------------------------------------------------------------------------
\* Initial states and specifications
\* ------------------------------------------------------------------------

\* a plausible slip: the default for unknown variables is to allow
PermissionManager_new_allowing ==
    [env_access_permission |-> "Allowed",
     allowed_env_vars |-> SeededEnvVars,
     denied_env_vars |-> {},
     allowed_paths |-> {},
     denied_paths |-> {}]

\* PermissionManager::new()
PermissionManager_new ==
    [env_access_permission |-> "AskEveryTime",
     allowed_env_vars |-> SeededEnvVars,
     denied_env_vars |-> {},
     allowed_paths |-> {},
     denied_paths |-> {}]

\* App::new: PermissionManager::new(), then every config.denied_paths entry goes
\* through deny_path (the allow set is empty, so nothing is removed from it)
InitPermissions ==
    /\ env_access_permission = PermissionManager_new.env_access_permission
    /\ allowed_env_vars = PermissionManager_new.allowed_env_vars
    /\ denied_env_vars = PermissionManager_new.denied_env_vars
    /\ allowed_paths = PermissionManager_new.allowed_paths
    /\ denied_paths = PermissionManager_new.denied_paths
                          \cup {expand_tilde(p) : p \in Range(config.denied_paths)}

\* no command is running
InitProcesses ==
    /\ shell_pc = "idle"
    /\ child_pc = "none"
    /\ child_allowed_paths = <<>>
    /\ isolation_status = ""
    /\ command_env = EmptyMap
    /\ landlock = [p \in {"shell", "child"} |-> NoDomain]
    /\ last_access = <<>>
    /\ trace = <<>>
    /\ exit_status = <<>>
    /\ exec_result = <<>>
    /\ handling = <<>>

\* Vec::join(", ")
join_comma(strs) ==
    LET RECURSIVE from(_)
        from(i) == IF i > Len(strs) THEN ""
                   ELSE IF i = Len(strs) THEN strs[i]
                   ELSE strs[i] \o ", " \o from(i + 1)
    IN  from(1)

\* the output buffer App::new leaves: the welcome message and the startup
\* lines on security and configuration (their symbols written in ASCII);
\* the list of interactive commands fits in one line of 70 characters
StartupOutput ==
    <<WELCOME_MESSAGE,
      "",
      "Security Features:",
      "",
      "  * Environment Variables: Filtered by default",
      "    Allowed: HOME, PATH, USER, SHELL, TERM, LANG, EDITOR, COLORTERM",
      "    Plus Rust toolchain vars: RUSTUP_HOME, CARGO_HOME, etc.",
      "    Use 'allow <VAR>' or 'deny <VAR>' to modify permissions",
      "">>
    \o (IF get_abi_version > 0
        THEN <<"  * Filesystem Isolation: ENABLED (Landlock)",
               "    Landlock ABI version: V" \o ToString(get_abi_version),
               "    Interactive commands restricted to current directory",
               "    Kernel-enforced - cannot be bypassed">>
        ELSE <<"  * Filesystem Isolation: NOT AVAILABLE",
               "    Requires Linux kernel 5.13+ with Landlock support",
               "    Commands can access parent directories">>)
    \o <<"",
          "Configuration:",
          "",
          "  * Interactive Commands (" \o ToString(Len(config.interactive_commands)) \o ")",
          "    " \o join_comma(config.interactive_commands),
          "",
          "  * Additional Allowed Paths ("
              \o ToString(Len(config.additional_allowed_paths)) \o ")">>
    \o (IF config.additional_allowed_paths = <<>>
        THEN <<"    (none)">>
        ELSE [i \in 1..Len(config.additional_allowed_paths) |->
                 "    " \o config.additional_allowed_paths[i]])
    \o <<"">>
    \o (IF config.denied_paths # <<>>
        THEN <<"  * Denied Paths (" \o ToString(Len(config.denied_paths)) \o ")">>
             \o [i \in 1..Len(config.denied_paths) |-> "    x " \o config.denied_paths[i]]
             \o <<"">>
        ELSE <<>>)
    \o <<"Type 'help' for commands, 'security' for status", "">>

\* InputEditor::new() and the renderer App::new has filled
InitRenderer ==
    /\ history = <<>>
    /\ output_buffer = StartupOutput
    /\ last_printed_index = 0
    /\ history_calls = <<>>
    /\ new_output = <<>>

\* App::run on a terminal: raw mode is on when the event loop starts
InitTerminal ==
    /\ InitRenderer
    /\ stdin_tty = TRUE
    /\ raw_mode = TRUE

\* every start of the shell the model knows
Init ==
    /\ proc_env \in ProcEnvs
    /\ config \in Configs
    /\ current_dir \in WorkDirs
    /\ \E fs \in FileSystems : fs_exists = fs.exists /\ fs_unopenable = fs.unopenable
    /\ kernel_abi \in KernelAbis
    /\ custom_env = EmptyMap
    /\ last_check = <<>>
    /\ InitPermissions
    /\ InitProcesses
    /\ InitTerminal

\* the steps of an interactive invocation
Interactive ==
    \/ Fork
    \/ ForkFails
    \/ ChildRestrict
    \/ ChildBuildCommand
    \/ ChildSpawn
    \/ ChildSpawnFails
    \/ \E code \in ExitCodes : CommandExit(code)
    \/ Reap

\* the PermissionManager alone: any sequence of calls on the environment side
InitPerm ==
    /\ Init
    /\ config = [interactive_commands |-> <<"vim">>, additional_allowed_paths |-> <<>>,
                 denied_paths |-> <<>>]
    /\ current_dir = "/h/w"
    /\ fs_unopenable = {}
    /\ kernel_abi = 3

NextPerm ==
    \/ \E permission \in Permission : SetEnvAccess(permission)
    \/ \E var \in EnvNameArgs : AllowEnvVar(var)
    \/ \E var \in EnvNameArgs : DenyEnvVar(var)
    \/ \E var \in EnvNameArgs \cup {"PATH", "USER"} : CheckEnvVar(var)

SpecPerm == InitPerm /\ [][NextPerm]_vars

\* the environment side of the shell: allow, deny, export, and both ways to run
\* a command
InitEnv ==
    /\ Init
    /\ config = [interactive_commands |-> <<"vim">>, additional_allowed_paths |-> <<>>,
                 denied_paths |-> <<>>]
    /\ current_dir = "/h/w"
    /\ fs_unopenable = {}
    /\ kernel_abi \in {0, 3}

NextEnv ==
    \/ AllowAllEnvVars
    \/ DenyAllEnvVars
    \/ \E var \in EnvNameArgs : AllowEnvVar(var)
    \/ \E var \in EnvNameArgs : DenyEnvVar(var)
    \/ \E key \in CustomKeys, value \in CustomValues : SetEnvVar(key, value)
    \/ ExecuteCaptured
    \/ CapturedDone
    \/ Interactive

SpecEnv == InitEnv /\ [][NextEnv]_vars

\* the filesystem side of the shell: allowpath, denypath, and interactive
\* commands that open files
NextFs ==
    \/ \E path \in PathArgs : AllowPath(path)
    \/ \E path \in PathArgs : DenyPath(path)
    \/ Interactive
    \/ \E path \in ProbePaths, right \in ProbeRights : CommandAccess(path, right)

SpecFs == Init /\ [][NextFs]_vars

\* the whole shell
Next == NextPerm \/ NextEnv \/ NextFs

Spec == Init /\ [][Next]_vars

\* interactive commands started in a directory that may exist without being
\* openable or have a name that is not UTF-8, on kernels with and without Landlock
\* the process environments of the isolation runs: HOME set or not
IsoEnvs == {[k \in {"HOME"} |-> "/h"], [k \in {"PATH"} |-> "/usr/bin"]}

InitIso ==
    /\ proc_env \in IsoEnvs
    /\ config \in Configs
    /\ current_dir \in {"/h/w", "/h/a", NonUtf8Dir}
    /\ \E fs \in FileSystems : fs_exists = fs.exists /\ fs_unopenable = fs.unopenable
    /\ kernel_abi \in KernelAbis
    /\ custom_env = EmptyMap
    /\ last_check = <<>>
    /\ InitPermissions
    /\ InitProcesses
    /\ InitTerminal

NextIso ==
    \/ \E path \in PathArgs : AllowPath(path)
    \/ Interactive
    \/ \E path \in ProbePaths, right \in ProbeRights : CommandAccess(path, right)

SpecIso == InitIso /\ [][NextIso]_vars

\* ------------------------------------------------------------------------
\* The driver (App::handle_command, src/main.rs), one command line at a time
\* ------------------------------------------------------------------------

\* the command lines the user may enter
InputLines ==
    {"", "   ", "vim file", "  vim  a  b ", "ls -la", "/usr/bin/vim", "allow SECRET",
     "deny SECRET", "allow", "deny", "allowpath", "denypath", "allowpath ~/a",
     "denypath ~/a", "export FOO='a  b'", "export FOO", "export FOO='", "env",
     "echo $SECRET ${FOO}", "help", "status", "listallowpath", "exit", "clear"}

\* a plausible slip: the dispatcher records an export itself
ProcessInput_applies(input) ==
    /\ shell_pc = "idle"
    /\ handling = <<>>
    /\ handling' = <<[input |-> input, action |-> process_input(input)]>>
    /\ LET returned == process_input(input)
       IN  IF returned # <<>> /\ returned[1].kind = "SetEnvVar"
           THEN custom_env' = MapInsert(custom_env, returned[1].key, returned[1].value)
           ELSE UNCHANGED custom_env
    /\ UNCHANGED <<perm_vars, config, os_vars, term_vars, last_check, proc_vars>>

\* line 218: process_input is called on the line with the shell's permissions,
\* custom_env and config, and returns
ProcessInput(input) ==
    /\ shell_pc = "idle"
    /\ handling = <<>>
    /\ handling' = <<[input |-> input, action |-> process_input(input)]>>
    /\ UNCHANGED <<perm_vars, app_vars, os_vars, term_vars, last_check, proc_vars>>

\* process_input has returned Some(action) of this kind
Returned(kind) ==
    /\ handling # <<>>
    /\ handling[1].action # <<>>
    /\ handling[1].action[1].kind = kind

\* the action process_input has returned
action == handling[1].action[1]

\* process_input returned None: handle_command does nothing
HandleNone ==
    /\ handling # <<>>
    /\ handling[1].action = <<>>
    /\ handling' = <<>>
    /\ UNCHANGED <<perm_vars, app_vars, os_vars, term_vars, last_check, proc_vars>>

\* CommandAction::Exit => return Ok(false): the shell ends
HandleExit ==
    /\ Returned("Exit")
    /\ handling' = <<>>
    /\ shell_pc' = "exited"
    /\ raw_mode' = IF stdin_tty THEN FALSE ELSE raw_mode
    /\ UNCHANGED <<perm_vars, app_vars, os_vars, renderer_vars, stdin_tty, last_check,
                   child_pc, child_allowed_paths,
                   isolation_status, command_env, landlock, last_access, trace,
                   exit_status, exec_result>>

\* a panic in process_input unwinds through handle_command: the shell ends
HandlePanic ==
    /\ Returned("Panic")
    /\ handling' = <<>>
    /\ shell_pc' = "panicked"
    /\ UNCHANGED <<perm_vars, app_vars, os_vars, term_vars, last_check, child_pc, child_allowed_paths,
                   isolation_status, command_env, landlock, last_access, trace,
                   exit_status, exec_result>>

\* CommandAction::ClearScreen and CommandAction::ShowOutput(lines): only the
\* renderer is touched, which RunLine follows
HandleOutput ==
    /\ Returned("ClearScreen") \/ Returned("ShowOutput")
    /\ handling' = <<>>
    /\ UNCHANGED <<perm_vars, app_vars, os_vars, term_vars, last_check, proc_vars>>

\* CommandAction::ExecuteCaptured(cmd): Shell::execute_captured spawns the command
HandleExecuteCaptured ==
    /\ Returned("ExecuteCaptured")
    /\ handling' = <<>>
    /\ shell_pc' = "captured"
    /\ command_env' = CapturedEnv
    /\ UNCHANGED <<perm_vars, app_vars, os_vars, term_vars, last_check, child_pc, child_allowed_paths,
                   isolation_status, landlock, last_access, trace, exit_status, exec_result>>

\* CommandAction::ExecuteInteractive(cmd): Executor::execute_interactive forks
HandleExecuteInteractive ==
    /\ Returned("ExecuteInteractive")
    /\ handling' = <<>>
    /\ shell_pc' = "waitpid"
    /\ child_pc' = "forked"
    /\ trace' = <<<<"shell", "fork">>>>
    /\ exec_result' = <<>>
    /\ isolation_status' = ""
    /\ raw_mode' = FALSE
    /\ UNCHANGED <<perm_vars, app_vars, os_vars, renderer_vars, stdin_tty, last_check,
                   child_allowed_paths,
                   command_env, landlock, last_access, exit_status>>

\* a plausible slip: an error of the invocation is passed on with `?` and ends
\* the shell
HandleExecuteInteractiveErr_fatal ==
    /\ Returned("ExecuteInteractive")
    /\ handling' = <<>>
    /\ exec_result' = <<"Err">>
    /\ shell_pc' = "exited"
    /\ raw_mode' = FALSE
    /\ UNCHANGED <<perm_vars, app_vars, os_vars, renderer_vars, stdin_tty, last_check, child_pc,
                   child_allowed_paths, isolation_status, command_env, landlock,
                   last_access, trace, exit_status>>

\* CommandAction::ExecuteInteractive(cmd), fork fails: Err(e) is printed
HandleExecuteInteractiveErr ==
    /\ Returned("ExecuteInteractive")
    /\ handling' = <<>>
    /\ exec_result' = <<"Err">>
    /\ ReenableRawMode(shell_pc)
    /\ UNCHANGED <<perm_vars, app_vars, os_vars, renderer_vars, stdin_tty, last_check, child_pc,
                   child_allowed_paths, isolation_status, command_env, landlock,
                   last_access, trace, exit_status>>

\* CommandAction::AllowEnvVar(var)
HandleAllowEnvVar ==
    /\ Returned("AllowEnvVar")
    /\ handling' = <<>>
    /\ allow_env_var(action.var)
    /\ UNCHANGED <<app_vars, os_vars, term_vars, last_check, proc_vars>>

\* CommandAction::DenyEnvVar(var)
HandleDenyEnvVar ==
    /\ Returned("DenyEnvVar")
    /\ handling' = <<>>
    /\ deny_env_var(action.var)
    /\ UNCHANGED <<app_vars, os_vars, term_vars, last_check, proc_vars>>

\* a plausible slip: allowing everything also forgets the names denied so far
HandleAllowAllEnvVars_clearing ==
    /\ Returned("AllowAllEnvVars")
    /\ handling' = <<>>
    /\ env_access_permission' = "Allowed"
    /\ denied_env_vars' = {}
    /\ UNCHANGED <<allowed_env_vars, allowed_paths, denied_paths>>
    /\ UNCHANGED <<app_vars, os_vars, term_vars, last_check, proc_vars>>

\* CommandAction::AllowAllEnvVars
HandleAllowAllEnvVars ==
    /\ Returned("AllowAllEnvVars")
    /\ handling' = <<>>
    /\ set_env_access("Allowed")
    /\ UNCHANGED <<app_vars, os_vars, term_vars, last_check, proc_vars>>

\* CommandAction::DenyAllEnvVars
HandleDenyAllEnvVars ==
    /\ Returned("DenyAllEnvVars")
    /\ handling' = <<>>
    /\ set_env_access("Denied")
    /\ UNCHANGED <<app_vars, os_vars, term_vars, last_check, proc_vars>>

\* CommandAction::SetEnvVar(key, value)
HandleSetEnvVar ==
    /\ Returned("SetEnvVar")
    /\ handling' = <<>>
    /\ custom_env' = MapInsert(custom_env, action.key, action.value)
    /\ UNCHANGED <<perm_vars, config, os_vars, term_vars, last_check, proc_vars>>

\* CommandAction::AllowPath(path)
HandleAllowPath ==
    /\ Returned("AllowPath")
    /\ handling' = <<>>
    /\ allow_path(action.path)
    /\ UNCHANGED <<app_vars, os_vars, term_vars, last_check, proc_vars>>

\* CommandAction::DenyPath(path)
HandleDenyPath ==
    /\ Returned("DenyPath")
    /\ handling' = <<>>
    /\ deny_path(action.path)
    /\ UNCHANGED <<app_vars, os_vars, term_vars, last_check, proc_vars>>

\* executor.rs 131-137: waitpid returns -1; Err(err) goes back to handle_command,
\* which prints it and goes on. The child is not waited for again: it is left
\* in whatever state it is in.
WaitpidFails ==
    /\ shell_pc = "waitpid"
    /\ ReenableRawMode("idle")
    /\ exec_result' = <<"Err">>
    /\ UNCHANGED <<perm_vars, app_vars, os_vars, renderer_vars, stdin_tty, handling,
                   last_check, child_pc,
                   child_allowed_paths, isolation_status, command_env, landlock,
                   last_access, trace, exit_status>>

\* the configurations of the driver: those above and one that lists a command
\* by its path
ShellConfigs ==
    Configs \cup {[interactive_commands |-> <<"top", "/usr/bin/vim">>,
                   additional_allowed_paths |-> <<>>,
                   denied_paths |-> <<>>]}

InitShell ==
    /\ proc_env \in ProcEnvs
    /\ config \in ShellConfigs
    /\ current_dir = "/h/w"
    /\ fs_exists = Files
    /\ fs_unopenable = {}
    /\ kernel_abi = 0
    /\ custom_env = EmptyMap
    /\ last_check = <<>>
    /\ InitPermissions
    /\ InitProcesses
    /\ InitTerminal

NextShell ==
    \/ \E input \in InputLines : ProcessInput(input)
    \/ HandleNone
    \/ HandleExit
    \/ HandlePanic
    \/ HandleOutput
    \/ HandleExecuteCaptured
    \/ HandleExecuteInteractive
    \/ HandleExecuteInteractiveErr
    \/ HandleAllowEnvVar
    \/ HandleDenyEnvVar
    \/ HandleAllowAllEnvVars
    \/ HandleDenyAllEnvVars
    \/ HandleSetEnvVar
    \/ HandleAllowPath
    \/ HandleDenyPath
    \/ CapturedDone
    \/ ChildRestrict
    \/ ChildBuildCommand
    \/ ChildSpawn
    \/ ChildSpawnFails
    \/ \E code \in ExitCodes : CommandExit(code)
    \/ Reap

SpecShell == InitShell /\ [][NextShell]_vars

\* ------------------------------------------------------------------------
\* Properties of the PermissionManager (checked under SpecPerm)
\* ------------------------------------------------------------------------

\* every variable name the model knows
EnvNames == Range(SortedEnvNames)

\* C2: a name in the deny set is answered Denied by check_env_var, whatever the
\* global permission is
C2_DenyWins ==
    \A v \in EnvNames : v \in denied_env_vars => check_env_var(v) = "Denied"

\* a denied name was asked about while the global permission is Allowed
C2_Witness ==
    /\ env_access_permission = "Allowed"
    /\ last_check # <<>>
    /\ last_check[1].name \in denied_env_vars
    /\ last_check[1].permission = "Denied"

\* C3: no name is in the allow set and in the deny set
C3_Exclusive == allowed_env_vars \cap denied_env_vars = {}

\* a seeded name was denied and an unseeded one allowed after having been denied
C3_Witness ==
    /\ "HOME" \in denied_env_vars
    /\ "SECRET" \in allowed_env_vars
    /\ last_check # <<>>
    /\ last_check[1] = [name |-> "SECRET", permission |-> "Denied"]

\* the decision the specification gives for a name
ReferenceDecision(name) ==
    CASE name \in denied_env_vars -> "Denied"
      [] name \notin denied_env_vars /\ name \in allowed_env_vars -> "Allowed"
      [] OTHER -> env_access_permission

\* C4: check_env_var answers the reference decision for every name in every
\* state, and a step that produces an answer gives the decision of the state it
\* was asked in and changes nothing of the PermissionManager or of custom_env
C4_CheckMatchesReference ==
    /\ [](\A name \in EnvNames : check_env_var(name) = ReferenceDecision(name))
    /\ [][last_check' # last_check =>
            /\ UNCHANGED <<perm_vars, custom_env>>
            /\ \E name \in EnvNames :
                 last_check' = <<[name |-> name, permission |-> ReferenceDecision(name)]>>]_vars

\* the fallback was used: a name in neither set was answered with a global
\* permission that set_env_access had changed
C4_Witness ==
    /\ last_check # <<>>
    /\ last_check[1].name \notin allowed_env_vars \cup denied_env_vars
    /\ last_check[1].permission = "Allowed"
    /\ env_access_permission = "Allowed"

\* ------------------------------------------------------------------------
\* Properties of the environment handed to a command (checked under SpecEnv)
\* ------------------------------------------------------------------------

\* a command spawned by execute_captured is running
CapturedRunning == shell_pc = "captured"

\* a command spawned by the interactive child is running
InteractiveRunning == child_pc = "running"

\* C1: the environment of a spawned command, captured or interactive, holds
\* nothing of the shell's own environment but (a) the entries of custom_env,
\* (b) the variables of the process environment that check_env_var allows, whose
\* value does not begin with "[REDACTED" and whose name is not in custom_env,
\* and, in interactive mode, the fixed PWD / DSHELL_* entries; a variable of the
\* process environment that is Denied or AskEveryTime is passed on only under
\* (a) or as a fixed entry, never from the process environment
C1_FilteredEnv ==
    (CapturedRunning \/ InteractiveRunning) =>
        /\ \A k \in DOMAIN command_env :
             \/ k \in DOMAIN custom_env /\ command_env[k] = custom_env[k]
             \/ /\ k \notin DOMAIN custom_env
                /\ k \in DOMAIN proc_env
                /\ check_env_var(k) = "Allowed"
                /\ ~StartsWith(proc_env[k], "[REDACTED")
                /\ command_env[k] = proc_env[k]
             \/ InteractiveRunning /\ k = "PWD" /\ command_env[k] = current_dir
             \/ InteractiveRunning /\ k = "DSHELL_RESTRICTED" /\ command_env[k] = "1"
             \/ InteractiveRunning /\ k = "DSHELL_RESTRICTED_ROOT" /\ command_env[k] = current_dir
             \/ /\ InteractiveRunning
                /\ k = "DSHELL_ISOLATION_STATUS"
                /\ command_env[k] \in {"fully_enforced", "partially_enforced",
                                       "not_enforced", "not_available"}
        /\ \A k \in DOMAIN proc_env :
             (/\ check_env_var(k) \in {"Denied", "AskEveryTime"}
              /\ k \notin DOMAIN custom_env
              /\ ~(InteractiveRunning /\ k \in FixedEnvNames))
             => k \notin DOMAIN command_env

\* an interactive command runs with an exported variable, while one variable of
\* the process environment is denied, one is redacted and PATH is passed on
C1_Witness ==
    /\ InteractiveRunning
    /\ DOMAIN custom_env # {}
    /\ \E k \in DOMAIN proc_env : check_env_var(k) = "Denied" /\ k \notin DOMAIN command_env
    /\ \E k \in DOMAIN proc_env : check_env_var(k) = "AskEveryTime" /\ k \notin DOMAIN command_env
    /\ "PATH" \in DOMAIN command_env
    /\ command_env["PATH"] = proc_env["PATH"]

\* ------------------------------------------------------------------------
\* Properties of the isolated child (checked under SpecFs)
\* ------------------------------------------------------------------------

\* the child has put its allow-list together and called restrict_filesystem
ChildRestricted == child_pc \in {"restricted", "built", "running", "exited"}

\* the positions of the config entries whose expanded form is not denied
KeptConfigIndexes ==
    {i \in 1..Len(config.additional_allowed_paths) :
        expand_tilde(config.additional_allowed_paths[i]) \notin denied_paths}

\* the j-th smallest of a set of numbers
Nth(set, j) == CHOOSE i \in set : Cardinality({x \in set : x < i}) = j - 1

StepIndex(step) ==
    IF step \in Range(trace) THEN CHOOSE i \in 1..Len(trace) : trace[i] = step ELSE 0

\* C6: restrict_filesystem is called by the child only and the shell is never
\* put in a Landlock domain; the child restricts, then builds the environment,
\* then sets the working directory, then execs, and a command runs only after
\* the restriction step is over
C6_IsolationOrder ==
    /\ landlock["shell"] = NoDomain
    /\ \A i \in 1..Len(trace) : trace[i][2] = "restrict_filesystem" => trace[i][1] = "child"
    /\ <<"command", "exec">> \in Range(trace) =>
         /\ 0 < StepIndex(<<"shell", "fork">>)
         /\ StepIndex(<<"shell", "fork">>) < StepIndex(<<"child", "restrict_filesystem">>)
         /\ StepIndex(<<"child", "restrict_filesystem">>) < StepIndex(<<"child", "env">>)
         /\ StepIndex(<<"child", "env">>) < StepIndex(<<"command", "chdir">>)
         /\ StepIndex(<<"command", "chdir">>) < StepIndex(<<"command", "exec">>)
    /\ child_pc = "running" =>
         /\ <<"command", "exec">> \in Range(trace)
         /\ isolation_status # ""

\* a command runs in an enforced domain while the shell is unrestricted
C6_Witness ==
    /\ child_pc = "running"
    /\ is_enforced(isolation_status)
    /\ landlock["child"].enforced
    /\ shell_pc = "waitpid"
    /\ <<"command", "exec">> \in Range(trace)

\* the running command is in an enforced Landlock domain
Sandboxed == child_pc = "running" /\ is_enforced(isolation_status)

\* the command has tried to open an existing file
Accessed == last_access # <<>> /\ last_access[1].path \in fs_exists

\* C7: after restrict_filesystem(work_dir = D, extras = []) reported an enforced
\* status, reading a file beneath D succeeds and reading a file of the temporary
\* directory that is not beneath D fails with permission denied
C7_ConfinedToWorkDir ==
    (/\ Sandboxed
     /\ child_allowed_paths = <<>>
     /\ Accessed
     /\ last_access[1].right = "ReadFile"
     /\ Beneath(last_access[1].path, "/tmp"))
    => /\ Beneath(last_access[1].path, current_dir) => last_access[1].result = "ok"
       /\ ~Beneath(last_access[1].path, current_dir) => last_access[1].result = "EACCES"

\* the rules the claim lists, for the paths `has` holds of
ListedRules(has(_)) ==
    {[path |-> p, access |-> {"Execute", "ReadFile", "ReadDir"}] :
        p \in {q \in {"/usr", "/bin", "/lib", "/lib64", "/etc", "/dev", "/proc", "/sys", "/run"} :
                  has(q)}}
    \cup {[path |-> p, access |-> landlock["child"].handled] :
        p \in {q \in {"/tmp", "/var/tmp"} : has(q)}}
    \cup {[path |-> Absolute(expand_tilde(child_allowed_paths[i])),
           access |-> landlock["child"].handled] :
        i \in {j \in 1..Len(child_allowed_paths) : has(expand_tilde(child_allowed_paths[j]))}}
    \cup {[path |-> current_dir, access |-> landlock["child"].handled]}

\* the rights of a domain on a path: those of the rules it lies beneath
RightsOn(domain, path) ==
    UNION {rule.access : rule \in {r \in domain.rules : Beneath(path, r.path)}}

\* C8 as stated: the ruleset of an enforced child holds a rule for every system
\* path, temporary directory and allowed path that exists
C8_RulesForExistingPaths ==
    landlock["child"].enforced =>
        landlock["child"].rules = ListedRules(PathExists)

\* C8, amended: the ruleset of an enforced child holds exactly the read-only
\* rules of the system paths, the full rules of the temporary directories and of
\* the tilde-expanded allowed paths, each for the paths that exist and can be
\* opened, and the full rule of work_dir; an access to an existing path that no
\* rule grants the right for is denied; the domain of an enforced child never
\* changes while the child lives
C8_RulesForOpenablePaths ==
    /\ [](landlock["child"].enforced =>
            /\ landlock["child"].handled = AccessFs_from_all(get_abi_version)
            /\ landlock["child"].rules = ListedRules(CanOpen)
            /\ (Accessed /\ child_pc = "running") =>
                 (last_access[1].right \notin RightsOn(landlock["child"], last_access[1].path)
                      => last_access[1].result = "EACCES"))
    /\ [][(landlock["child"].enforced /\ child_pc' # "none") =>
              landlock'["child"] = landlock["child"]]_vars

\* an enforced command was refused a write beneath a read-only rule, with an
\* allowed path in the ruleset and a system path left out of it
C8_Witness ==
    /\ Sandboxed
    /\ landlock["child"].enforced
    /\ last_access # <<>>
    /\ last_access[1] = [path |-> "/etc/passwd", right |-> "WriteFile", result |-> "EACCES"]
    /\ \E rule \in landlock["child"].rules : rule.path = "/h/a"
    /\ ~\E rule \in landlock["child"].rules : rule.path = "/lib64"

\* the command got access to a file of the user's home directory
HomeFileOpened ==
    /\ Sandboxed
    /\ Accessed
    /\ last_access[1].result = "ok"
    /\ "HOME" \in DOMAIN proc_env
    /\ Beneath(last_access[1].path, proc_env["HOME"])

\* the file the command opened lies beneath a path of the allow-list
BeneathListedPath ==
    \E p \in allowed_paths \cup Range(config.additional_allowed_paths) :
        Beneath(last_access[1].path, Absolute(expand_tilde(p)))

\* C9 as stated: a sandboxed command gets access to a file under $HOME only
\* beneath a path listed in path_allow or config.additional_allowed_paths
C9_HomeOnlyIfListed == HomeFileOpened => BeneathListedPath

\* C9, amended: a sandboxed command gets access to a file under $HOME only
\* beneath a listed path, beneath the working directory or beneath one of the
\* fixed system and temporary directories
C9_HomeOnlyIfListedOrWorkDir ==
    HomeFileOpened =>
        \/ BeneathListedPath
        \/ Beneath(last_access[1].path, current_dir)
        \/ \E p \in Range(readonly_paths) \cup Range(readwrite_system_paths) :
             Beneath(last_access[1].path, p)

\* a sandboxed command in a project directory, with a path allowed, was refused
\* the user's dotfile
C9_Witness ==
    /\ Sandboxed
    /\ "HOME" \in DOMAIN proc_env
    /\ current_dir = "/h/w"
    /\ allowed_paths # {}
    /\ last_access # <<>>
    /\ last_access[1] = [path |-> "/h/.ssh/id", right |-> "ReadFile", result |-> "EACCES"]

\* C10: a denied path is covered by no rule of the ruleset of an enforced
\* interactive command
C10_DeniedPathNotCovered ==
    landlock["child"].enforced =>
        \A p \in denied_paths :
            ~\E rule \in landlock["child"].rules : Beneath(Absolute(p), rule.path)

\* ------------------------------------------------------------------------
\* Properties of the interactive child (checked under SpecIso)
\* ------------------------------------------------------------------------

\* the statuses under which the command runs without a Landlock domain
Unisolated == isolation_status \in {"NotAvailable", "NotEnforced"}

\* C11: when no Landlock ABI is available the restriction step leaves the
\* process as it was and the status is NotAvailable; when restrict_filesystem
\* fails (work_dir cannot be opened) the status is NotEnforced; in no case does
\* the restriction step end the child, which can go on to build and start the
\* command, and the command then runs in no Landlock domain
C11_IsolationFailureStillRuns ==
    /\ [][(child_pc = "forked" /\ child_pc' # "forked") =>
            /\ child_pc' = "restricted"
            /\ isolation_status' \in {"FullyEnforced", "PartiallyEnforced",
                                      "NotEnforced", "NotAvailable"}
            /\ get_abi_version = 0 =>
                 (isolation_status' = "NotAvailable" /\ landlock' = landlock)
            /\ (get_abi_version # 0 /\ ~CanOpen(current_dir)) =>
                 (isolation_status' = "NotEnforced" /\ landlock' = landlock)]_vars
    /\ [](child_pc = "restricted" => ENABLED ChildBuildCommand)
    /\ [](child_pc = "built" => ENABLED ChildSpawn)
    /\ []((child_pc = "running" /\ Unisolated) =>
            /\ landlock["child"] = NoDomain
            /\ Accessed => last_access[1].result = "ok")

\* the command runs although work_dir could not be opened for the ruleset, and
\* has opened a file of the home directory
C11_Witness ==
    /\ child_pc = "running"
    /\ get_abi_version # 0
    /\ ~CanOpen(current_dir)
    /\ isolation_status = "NotEnforced"
    /\ Accessed
    /\ last_access[1].path = "/h/.ssh/id"
    /\ last_access[1].result = "ok"

\* C12: the environment of the command of an interactive invocation has
\* PWD = work_dir, DSHELL_RESTRICTED = 1, DSHELL_RESTRICTED_ROOT = work_dir and
\* DSHELL_ISOLATION_STATUS = the name of the status restrict_filesystem gave
C12_FixedEntries ==
    InteractiveRunning =>
        /\ FixedEnvNames \subseteq DOMAIN command_env
        /\ command_env["PWD"] = current_dir
        /\ command_env["DSHELL_RESTRICTED"] = "1"
        /\ command_env["DSHELL_RESTRICTED_ROOT"] = current_dir
        /\ command_env["DSHELL_ISOLATION_STATUS"] = StatusName(isolation_status)

\* ------------------------------------------------------------------------
\* Properties of the path sets (checked under SpecFs)
\* ------------------------------------------------------------------------

\* every path string the user or the configuration may name
PathStrings ==
    PathArgs \cup UNION {Range(c.additional_allowed_paths) \cup Range(c.denied_paths) : c \in Configs}

\* C13: after startup and any sequence of allow_path and deny_path calls, no
\* path string is, tilde-expanded, in both path_allow and path_deny
C13_PathsExclusive ==
    /\ allowed_paths \cap denied_paths = {}
    /\ \A p \in PathStrings :
         ~(expand_tilde(p) \in allowed_paths /\ expand_tilde(p) \in denied_paths)

\* a path denied by the configuration at startup is still denied, one path of
\* the user is allowed, and the path typed as ~/a is denied in its expanded form
C13_Witness ==
    /\ "/h/.ssh" \in denied_paths
    /\ "/h/a" \in denied_paths
    /\ "/h/a/s" \in allowed_paths

\* ------------------------------------------------------------------------
\* Properties of get_allowed_env_vars (checked under SpecPerm)
\* ------------------------------------------------------------------------

\* C14: get_allowed_env_vars returns one pair per variable of the process
\* environment that is not Denied, ascending by name: the real value when the
\* variable is Allowed, the redaction text when it is AskEveryTime, and no pair
\* for a Denied variable
C14_AllowedEnvVars ==
    LET result == get_allowed_env_vars
    IN  /\ \A i \in 1..Len(result), j \in 1..Len(result) :
             i < j => StrLess(result[i][1], result[j][1])
        /\ {result[i][1] : i \in 1..Len(result)}
             = {k \in DOMAIN proc_env : check_env_var(k) # "Denied"}
        /\ \A i \in 1..Len(result) :
             /\ check_env_var(result[i][1]) = "Allowed" => result[i][2] = proc_env[result[i][1]]
             /\ check_env_var(result[i][1]) = "AskEveryTime" => result[i][2] = REDACTED

\* a state in which the three cases occur: a variable passed with its value, a
\* redacted one and a denied one
C14_Witness ==
    /\ env_access_permission = "AskEveryTime"
    /\ "SECRET" \in denied_env_vars
    /\ "SECRET" \in DOMAIN proc_env
    /\ \E i \in 1..Len(get_allowed_env_vars) : get_allowed_env_vars[i] = <<"FOO", REDACTED>>
    /\ \E i \in 1..Len(get_allowed_env_vars) : get_allowed_env_vars[i] = <<"PATH", "/usr/bin">>
    /\ ~\E i \in 1..Len(get_allowed_env_vars) : get_allowed_env_vars[i][1] = "SECRET"

\* C15: for every name v the most recent of `allow v` / `deny v` decides: right
\* after deny v the answer for v is Denied and get_allowed_env_vars has no pair
\* for v, right after allow v the answer is Allowed, and no other command moves
\* v into or out of the allow set or the deny set
C15_LastCommandDecides ==
    /\ [][\A v \in EnvNameArgs :
            /\ DenyEnvVar(v) => (check_env_var(v) = "Denied")'
            /\ AllowEnvVar(v) => (check_env_var(v) = "Allowed")'
            /\ ~(DenyEnvVar(v) \/ AllowEnvVar(v)) =>
                 /\ (v \in denied_env_vars)' = (v \in denied_env_vars)
                 /\ (v \in allowed_env_vars)' = (v \in allowed_env_vars)]_vars
    /\ [](\A v \in EnvNameArgs :
            check_env_var(v) = "Denied" =>
                \A i \in 1..Len(get_allowed_env_vars) : get_allowed_env_vars[i][1] # v)

\* SECRET was denied, asked about, and allowed afterwards; HOME, allowed from
\* the start, was denied afterwards
C15_Witness ==
    /\ last_check # <<>>
    /\ last_check[1] = [name |-> "SECRET", permission |-> "Denied"]
    /\ check_env_var("SECRET") = "Allowed"
    /\ check_env_var("HOME") = "Denied"
    /\ "HOME" \in DOMAIN proc_env
    /\ \A i \in 1..Len(get_allowed_env_vars) : get_allowed_env_vars[i][1] # "HOME"

\* ------------------------------------------------------------------------
\* Properties of the dispatcher and the driver (checked under SpecShell)
\* ------------------------------------------------------------------------

\* C16: once the driver has applied a `deny` entered without an argument,
\* check_env_var(v) = Denied for every variable name v: those of the process
\* environment and those a command may name.
C16_DenyDeniesAll ==
    [][HandleDenyAllEnvVars =>
          (\A v \in DOMAIN proc_env \cup EnvNameArgs : check_env_var(v) = "Denied")']_vars

\* the command words Builtins::parse knows
BuiltinTokens ==
    {"exit", "quit", "clear", "cls", "help", "env", "allow", "deny", "security", "status",
     "export", "echo", "allowpath", "denypath", "listallowpath", "listpaths"}

\* C17: for a non-empty line whose command word is not a builtin, process_input
\* returns ExecuteInteractive(cmd) exactly when the word is string-equal to an
\* entry of config.interactive_commands and ExecuteCaptured(cmd) otherwise, and
\* cmd carries the parsed command word and arguments.
C17_ExecutionMode ==
    handling # <<>> =>
        LET parsed == ParsedCommand_parse(handling[1].input)
            listed == \E i \in 1..Len(config.interactive_commands) :
                          config.interactive_commands[i] = parsed[1].command
        IN  /\ (parsed # <<>> /\ parsed[1].command \notin BuiltinTokens) =>
                  /\ handling[1].action # <<>>
                  /\ action.kind = IF listed THEN "ExecuteInteractive" ELSE "ExecuteCaptured"
                  /\ action.cmd.command = parsed[1].command
                  /\ action.cmd.args = parsed[1].args
            /\ handling[1].input = "  vim  a  b " =>
                  /\ action.cmd.command = "vim"
                  /\ action.cmd.args = <<"a", "b">>
                  /\ action.kind = "ExecuteInteractive" <=>
                        ("vim" \in Range(config.interactive_commands))
            /\ handling[1].input = "ls -la" =>
                  /\ action.kind = "ExecuteCaptured"
                  /\ action.cmd.command = "ls"
                  /\ action.cmd.args = <<"-la">>

\* a command given by its path is captured although its file name is listed
C17_Witness ==
    /\ handling # <<>>
    /\ handling[1].input = "/usr/bin/vim"
    /\ "vim" \in Range(config.interactive_commands)
    /\ handling[1].action = <<[kind |-> "ExecuteCaptured",
                               cmd |-> [command |-> "/usr/bin/vim", args |-> <<>>,
                                        raw_input |-> "/usr/bin/vim"]]>>

\* C18: `allowpath` and `denypath` entered without an argument are ignored:
\* process_input returns nothing the driver would act on, neither an
\* AllowPath / DenyPath action nor the execution of an external command.
C18_PathCommandWithoutArgumentIgnored ==
    (handling # <<>> /\ handling[1].input \in {"allowpath", "denypath"}) =>
        \/ handling[1].action = <<>>
        \/ action.kind \notin {"AllowPath", "DenyPath", "ExecuteCaptured", "ExecuteInteractive"}

\* the value `echo` shows for $name: the custom value, else the process value
\* when the name is Allowed and the value is not a redaction, else nothing
ShownValue(name) ==
    IF name \in DOMAIN custom_env THEN custom_env[name]
    ELSE IF /\ name \in DOMAIN proc_env
            /\ check_env_var(name) = "Allowed"
            /\ ~StartsWith(proc_env[name], "[REDACTED")
         THEN proc_env[name]
         ELSE ""

\* the lines that enter a pure-output builtin
PureOutputLines == {"help", "env", "status", "echo $SECRET ${FOO}", "listallowpath"}

\* the steps in which process_input is called on a line and returns
ProcessInputReturns ==
    /\ handling = <<>>
    /\ handling' # <<>>
    /\ handling'[1].input \in InputLines

\* the steps in which the driver applies a returned mutation
AppliesMutation ==
    \/ HandleAllowEnvVar
    \/ HandleDenyEnvVar
    \/ HandleAllowAllEnvVars
    \/ HandleDenyAllEnvVars
    \/ HandleSetEnvVar
    \/ HandleAllowPath
    \/ HandleDenyPath

\* C19: process_input changes neither the PermissionManager nor custom_env;
\* a pure-output builtin comes back as ShowOutput holding its output on the
\* state at the time of the call; the permission sets, env_policy and
\* custom_env change only in a step in which the driver applies a returned
\* mutation action.
C19_ProcessInputIsPure ==
    /\ [][/\ ProcessInputReturns => UNCHANGED <<perm_vars, custom_env>>
          /\ (perm_vars' # perm_vars \/ custom_env' # custom_env) => AppliesMutation]_vars
    /\ [](handling # <<>> =>
            /\ handling[1].input \in PureOutputLines =>
                  /\ handling[1].action # <<>>
                  /\ action.kind = "ShowOutput"
            /\ handling[1].input = "echo $SECRET ${FOO}" =>
                  action.lines = <<ShownValue("SECRET") \o " " \o ShownValue("FOO")>>
            /\ handling[1].input = "env" =>
                  /\ \A i \in 1..Len(get_allowed_env_vars) :
                        (get_allowed_env_vars[i][1] \o "=" \o get_allowed_env_vars[i][2])
                            \in Range(action.lines)
                  /\ \A key \in DOMAIN custom_env :
                        (key \o "=" \o custom_env[key]) \in Range(action.lines)
                  /\ \A name \in DOMAIN proc_env :
                        check_env_var(name) = "Denied" =>
                            \A value \in {proc_env[name], REDACTED} :
                                (name \o "=" \o value) \notin Range(action.lines)
            /\ handling[1].input = "listallowpath" =>
                  \A path \in PathStrings :
                      (("  " \o CheckMark \o " " \o path) \in Range(action.lines)) <=>
                          \/ path \in allowed_paths
                          \/ path \in Range(config.additional_allowed_paths))

\* `echo` is answered with the value exported earlier and the allowed secret
C19_Witness ==
    /\ handling # <<>>
    /\ handling[1].input = "echo $SECRET ${FOO}"
    /\ "FOO" \in DOMAIN custom_env
    /\ check_env_var("SECRET") = "Allowed"
    /\ handling[1].action = <<[kind |-> "ShowOutput", lines |-> <<"s3cr3t a  b">>]>>

\* ------------------------------------------------------------------------
\* Tilde expansion of path commands (checked under SpecTilde)
\* ------------------------------------------------------------------------

\* a process environment whose HOME itself begins with a tilde
TildeHomeEnv == [k \in {"HOME", "PATH"} |-> IF k = "HOME" THEN "~/x" ELSE "/usr/bin"]

\* p with its leading `~` replaced by the value of HOME
HomeExpanded(p) == proc_env["HOME"] \o SubSeq(p, 2, Len(p))

\* p begins with `~/` or is `~`
IsTilde(p) == StartsWith(p, "~/") \/ p = "~"

\* the path commands' arguments: each path and its expanded form
TildeArgs ==
    PathArgs \cup {IF "HOME" \in DOMAIN env THEN env["HOME"] \o SubSeq(p, 2, Len(p)) ELSE p :
                      p \in {q \in PathArgs : IsTilde(q)}, env \in ProcEnvs \cup {TildeHomeEnv}}

InitTilde ==
    /\ proc_env \in ProcEnvs \cup {TildeHomeEnv}
    /\ config \in Configs
    /\ current_dir = "/h/w"
    /\ fs_exists = Files
    /\ fs_unopenable = {}
    /\ kernel_abi = 0
    /\ custom_env = EmptyMap
    /\ last_check = <<>>
    /\ InitPermissions
    /\ InitProcesses
    /\ InitTerminal

NextTilde ==
    \/ \E path \in TildeArgs : AllowPath(path)
    \/ \E path \in TildeArgs : DenyPath(path)

SpecTilde == InitTilde /\ [][NextTilde]_vars

\* the two forms of p are interchangeable: a step is allow_path(p) exactly
\* when it is allow_path(HOME-expanded p), likewise deny_path, and the entry
\* either form inserted is removed or moved by the other
FormsInterchangeable(p) ==
    /\ AllowPath(p) <=> AllowPath(HomeExpanded(p))
    /\ DenyPath(p) <=> DenyPath(HomeExpanded(p))
    /\ AllowPath(p) \/ AllowPath(HomeExpanded(p)) =>
          /\ HomeExpanded(p) \in allowed_paths'
          /\ HomeExpanded(p) \notin denied_paths'
    /\ DenyPath(p) \/ DenyPath(HomeExpanded(p)) =>
          /\ HomeExpanded(p) \in denied_paths'
          /\ HomeExpanded(p) \notin allowed_paths'

\* with HOME unset p is recorded as typed
StoredUnchanged(p) ==
    /\ AllowPath(p) => p \in allowed_paths'
    /\ DenyPath(p) => p \in denied_paths'

\* C20 (as stated): for every p that begins with `~/` or is `~`, with HOME
\* set allow_path(p) and allow_path(HOME-expanded p) give the same sets,
\* likewise deny_path, so that either form finds, removes or moves the entry
\* of the other; with HOME unset p is stored unchanged.
C20_TildeFormsEquivalent ==
    [][\A p \in {q \in TildeArgs : IsTilde(q)} :
          IF "HOME" \in DOMAIN proc_env
          THEN FormsInterchangeable(p)
          ELSE StoredUnchanged(p)]_vars

\* C20 (amended): the same, for a HOME whose value does not itself begin
\* with `~/`.
C20_TildeFormsEquivalentForPlainHome ==
    [][\A p \in {q \in TildeArgs : IsTilde(q)} :
          IF "HOME" \in DOMAIN proc_env
          THEN ~StartsWith(proc_env["HOME"], "~/") => FormsInterchangeable(p)
          ELSE StoredUnchanged(p)]_vars

\* ~/a was allowed and then denied in its expanded form: the one entry moved
C20_Witness ==
    /\ "HOME" \in DOMAIN proc_env
    /\ proc_env["HOME"] = "/h"
    /\ "/h/a" \in denied_paths
    /\ "/h/a" \notin allowed_paths
    /\ "~/a" \notin allowed_paths \cup denied_paths
    /\ "/h/a" \notin Range(config.denied_paths)

\* ------------------------------------------------------------------------
\* Construction (checked under SpecEnv)
\* ------------------------------------------------------------------------

\* the environment part of the PermissionManager is as it was constructed
EnvPermissionsAsConstructed ==
    /\ env_access_permission = "AskEveryTime"
    /\ allowed_env_vars = {"HOME", "PATH", "USER", "SHELL", "TERM", "LANG", "EDITOR",
                           "COLORTERM", "RUSTUP_HOME", "CARGO_HOME", "RUST_BACKTRACE",
                           "RUSTC", "RUSTDOC"}
    /\ denied_env_vars = {}

\* C21: PermissionManager::new() has env_policy AskEveryTime, the thirteen
\* seeded names in env_allow and the other four sets empty; while the
\* environment permissions are as constructed every other variable of the
\* process environment is reported redacted and is passed to no command.
C21_FreshPermissionManager ==
    /\ PermissionManager_new =
          [env_access_permission |-> "AskEveryTime",
           allowed_env_vars |-> {"HOME", "PATH", "USER", "SHELL", "TERM", "LANG", "EDITOR",
                                 "COLORTERM", "RUSTUP_HOME", "CARGO_HOME", "RUST_BACKTRACE",
                                 "RUSTC", "RUSTDOC"},
           denied_env_vars |-> {},
           allowed_paths |-> {},
           denied_paths |-> {}]
    /\ EnvPermissionsAsConstructed =>
          \A v \in DOMAIN proc_env \ PermissionManager_new.allowed_env_vars :
              /\ <<v, REDACTED>> \in Range(get_allowed_env_vars)
              /\ v \in DOMAIN CapturedEnv => v \in DOMAIN custom_env
              /\ v \in DOMAIN command_env => v \in DOMAIN custom_env \cup FixedEnvNames

\* a captured command runs under the permissions as constructed: it has PATH
\* and not SECRET
C21_Witness ==
    /\ EnvPermissionsAsConstructed
    /\ shell_pc = "captured"
    /\ "SECRET" \in DOMAIN proc_env
    /\ "SECRET" \notin DOMAIN command_env
    /\ "PATH" \in DOMAIN command_env

\* ------------------------------------------------------------------------
\* The builtins echo and export (checked under SpecShell)
\* ------------------------------------------------------------------------

\* the expansion of $name by permission: the custom value, else the process
\* value when check_env_var(name) = Allowed, else nothing
ExpansionByPermission(name) ==
    IF name \in DOMAIN custom_env THEN custom_env[name]
    ELSE IF name \in DOMAIN proc_env /\ check_env_var(name) = "Allowed" THEN proc_env[name]
    ELSE ""

\* C22: in every permission state echo replaces $NAME and ${NAME} by the
\* custom_env value of NAME, else by the process value if check_env_var(NAME) is
\* Allowed, else by the empty string.
C22_EchoExpansion ==
    (handling # <<>> /\ handling[1].input = "echo $SECRET ${FOO}") =>
        /\ handling[1].action # <<>>
        /\ action.kind = "ShowOutput"
        /\ action.lines =
              <<ExpansionByPermission("SECRET") \o " " \o ExpansionByPermission("FOO")>>

\* the export lines of InputLines with the key and the value they give: a
\* value in a pair of quotes loses the pair, any other value is taken as it is
ExportCases ==
    {[line |-> "export FOO='a  b'", key |-> "FOO", value |-> "a  b"],
     [line |-> "export FOO='", key |-> "FOO", value |-> "'"]}

\* C23: `export K=V` yields SetEnvVar(K, V) with V taken from the raw line, one
\* pair of matching quotes around it stripped and the spaces inside kept; the
\* driver stores it in custom_env, and a following `echo $K` shows that value.
C23_ExportSetsValue ==
    /\ handling # <<>> =>
          \A case \in ExportCases :
              handling[1].input = case.line =>
                  handling[1].action =
                      <<[kind |-> "SetEnvVar", key |-> case.key, value |-> case.value]>>
    /\ "FOO" \in DOMAIN custom_env =>
          /\ custom_env["FOO"] \in {case.value : case \in ExportCases}
          /\ (handling # <<>> /\ handling[1].input = "echo $SECRET ${FOO}") =>
                \E shown \in {"", "s3cr3t"} :
                    handling[1].action =
                        <<[kind |-> "ShowOutput",
                           lines |-> <<shown \o " " \o custom_env["FOO"]>>]>>

\* ------------------------------------------------------------------------
\* The parser on every short line (checked under SpecParse)
\* ------------------------------------------------------------------------

\* the characters of the lines: two letters, a dash, a space and a tab
LineChars == <<"l", "s", "-", " ", "\t">>

\* the string of the characters at the given places of LineChars
RECURSIVE Text(_)
Text(places) ==
    IF places = <<>> THEN "" ELSE LineChars[Head(places)] \o Text(Tail(places))

\* every line of at most MaxLineLen characters
ParseLines ==
    UNION {{Text(places) : places \in [1..n -> 1..Len(LineChars)]} : n \in 0..MaxLineLen}

InitParse ==
    /\ proc_env = TildeHomeEnv
    /\ config = [interactive_commands |-> <<"l">>, additional_allowed_paths |-> <<>>,
                 denied_paths |-> <<>>]
    /\ current_dir = "/h/w"
    /\ fs_exists = Files
    /\ fs_unopenable = {}
    /\ kernel_abi = 0
    /\ custom_env = EmptyMap
    /\ last_check = <<>>
    /\ InitPermissions
    /\ InitProcesses
    /\ InitTerminal

NextParse ==
    \/ \E input \in ParseLines : ProcessInput(input)
    \/ HandleNone
    \/ HandleExecuteCaptured
    \/ HandleExecuteInteractiveErr
    \/ CapturedDone

SpecParse == InitParse /\ [][NextParse]_vars

\* the places of a line where a token begins: a character that is not
\* whitespace, at the start or behind whitespace
TokenStarts(x) ==
    {i \in 1..Len(x) : /\ SubSeq(x, i, i) \notin WhiteSpace
                       /\ (i = 1 \/ SubSeq(x, i - 1, i - 1) \in WhiteSpace)}

\* the token that begins at place i: up to the next whitespace or the end
TokenAt(x, i) ==
    LET ends == {j \in i..Len(x) : j = Len(x) \/ SubSeq(x, j + 1, j + 1) \in WhiteSpace}
    IN  SubSeq(x, i, CHOOSE j \in ends : \A k \in ends : j <= k)

\* the whitespace-delimited tokens of a line, in order
Tokens(x) ==
    [n \in 1..Cardinality(TokenStarts(x)) |->
        TokenAt(x, CHOOSE i \in TokenStarts(x) :
                       Cardinality({k \in TokenStarts(x) : k < i}) = n - 1)]

\* the line without its leading and trailing whitespace
Trimmed(x) ==
    LET other == {i \in 1..Len(x) : SubSeq(x, i, i) \notin WhiteSpace}
    IN  IF other = {} THEN ""
        ELSE SubSeq(x, CHOOSE i \in other : \A j \in other : i <= j,
                       CHOOSE i \in other : \A j \in other : i >= j)

\* C24: parse gives nothing for an empty or all-whitespace line; otherwise
\* command is the first whitespace-delimited token, args the remaining ones,
\* none empty, raw_input the trimmed line, and parsing raw_input again gives
\* the same command and args.
C24_Parse ==
    handling # <<>> =>
        LET x == handling[1].input
            parsed == ParsedCommand_parse(x)
        IN  IF \A i \in 1..Len(x) : SubSeq(x, i, i) \in WhiteSpace
            THEN parsed = <<>> /\ handling[1].action = <<>>
            ELSE /\ parsed # <<>>
                 /\ parsed[1].command = Tokens(x)[1]
                 /\ parsed[1].args = Tail(Tokens(x))
                 /\ \A n \in 1..Len(parsed[1].args) : parsed[1].args[n] # ""
                 /\ parsed[1].raw_input = Trimmed(x)
                 /\ ParsedCommand_parse(parsed[1].raw_input) # <<>>
                 /\ ParsedCommand_parse(parsed[1].raw_input)[1].command = parsed[1].command
                 /\ ParsedCommand_parse(parsed[1].raw_input)[1].args = parsed[1].args
                 /\ handling[1].action # <<>>
                 /\ action.cmd = parsed[1]

\* a line with whitespace of both kinds around and between two tokens
C24_Witness ==
    /\ handling # <<>>
    /\ handling[1].input = " l\t-"
    /\ handling[1].action =
          <<[kind |-> "ExecuteInteractive",
             cmd |-> [command |-> "l", args |-> <<"-">>, raw_input |-> "l\t-"]]>>

\* ------------------------------------------------------------------------
\* Interactive invocations of the driver, system calls that fail included
\* (checked under SpecInteractive)
\* ------------------------------------------------------------------------

\* the lines entered: an interactive command and two mutations
InteractiveLines == {"vim file", "allow SECRET", "export FOO='a  b'"}

InitInteractive ==
    /\ proc_env \in ProcEnvs
    /\ config = [interactive_commands |-> <<"vim">>, additional_allowed_paths |-> <<>>,
                 denied_paths |-> <<>>]
    /\ current_dir = "/h/w"
    /\ fs_exists = Files
    /\ fs_unopenable = {}
    /\ kernel_abi \in {0, 3}
    /\ custom_env = EmptyMap
    /\ last_check = <<>>
    /\ InitPermissions
    /\ InitProcesses
    /\ InitTerminal

NextInteractive ==
    \/ \E input \in InteractiveLines : ProcessInput(input)
    \/ HandleExecuteInteractive
    \/ HandleExecuteInteractiveErr
    \/ HandleAllowEnvVar
    \/ HandleSetEnvVar
    \/ ChildRestrict
    \/ ChildBuildCommand
    \/ ChildSpawn
    \/ ChildSpawnFails
    \/ \E ending \in CommandEndings : CommandEnds(ending)
    \/ Reap
    \/ WaitpidFails

SpecInteractive == InitInteractive /\ [][NextInteractive]_vars

ChildTerminated == child_pc = "exited"

\* C26 (as stated): the child of an interactive invocation terminates with 127
\* when the command cannot be executed and otherwise with the exit code of
\* the command itself, however the command ends.
C26_ChildExitCode ==
    [][/\ ChildSpawnFails => exit_status' = <<127>>
       /\ \A ending \in CommandEndings : CommandEnds(ending) => exit_status' = ExitStatus_code(ending)]_vars

\* C26 (amended): 127 when the command cannot be executed, the exit code of
\* the command when it exits, 255 when a signal ends it; the child leaves no
\* other way.
C26_ChildExitCodeOrMinusOne ==
    /\ [][/\ ChildSpawnFails => exit_status' = <<127>>
          /\ \A ending \in CommandEndings :
                CommandEnds(ending) =>
                    exit_status' = IF ending.kind = "exited" THEN <<ending.code>> ELSE <<255>>
          /\ (~ChildTerminated /\ ChildTerminated') =>
                \/ ChildSpawnFails
                \/ \E ending \in CommandEndings : CommandEnds(ending)]_vars
    /\ [](ChildTerminated => exit_status # <<>>)

\* a signal has ended the command and the child has exited with 255
C26_Witness ==
    /\ ChildTerminated
    /\ <<"command", "signaled">> \in Range(trace)
    /\ exit_status = <<255>>

\* ------------------------------------------------------------------------
\* The history of the line editor (src/terminal/input.rs)
\* ------------------------------------------------------------------------

\* Vec::last as an Option
last(vec) == IF Len(vec) = 0 THEN <<>> ELSE <<vec[Len(vec)]>>

\* a plausible slip: every command is pushed, also the one just entered
add_to_history_always(h, command) ==
    IF command = "" THEN h
    ELSE LET pushed == Append(h, command)
         IN  IF Len(pushed) > MAX_HISTORY_SIZE THEN Tail(pushed) ELSE pushed

\* InputEditor::add_to_history on the history h
add_to_history(h, command) ==
    IF command = "" THEN h
    ELSE IF last(h) = <<command>> THEN h
    ELSE LET pushed == Append(h, command)
         IN  IF Len(pushed) > MAX_HISTORY_SIZE THEN Tail(pushed) ELSE pushed

\* the commands handed to add_to_history
HistoryCommands == {"", "ls", "pwd", "cd"}

\* the longest of the short histories the editor starts from
MaxHistoryLen == 2

\* a history add_to_history has built: no entry is empty, no entry repeats the
\* one before it
IsHistory(h) ==
    /\ \A i \in 1..Len(h) : h[i] # ""
    /\ \A i \in 1..(Len(h) - 1) : h[i] # h[i + 1]

\* the full history that alternates between two commands
FullHistory(first, second) ==
    [i \in 1..MAX_HISTORY_SIZE |-> IF i % 2 = 1 THEN first ELSE second]

\* the histories the editor starts from: the short ones and full ones
HistoryStates ==
    {h \in UNION {[1..n -> HistoryCommands] : n \in 0..MaxHistoryLen}
            \cup {FullHistory(first, second) : first, second \in HistoryCommands} :
        IsHistory(h)}

\* the editor is called with a command
AddToHistory(command) ==
    /\ Len(history_calls) < 2
    /\ history' = add_to_history(history, command)
    /\ history_calls' = Append(history_calls, [command |-> command, before |-> history])
    /\ UNCHANGED <<perm_vars, app_vars, os_vars, output_buffer, last_printed_index,
                   new_output, stdin_tty, raw_mode, last_check, proc_vars, handling>>

InitHistory ==
    /\ proc_env = TildeHomeEnv
    /\ config \in Configs
    /\ current_dir = "/h/w"
    /\ fs_exists = Files
    /\ fs_unopenable = {}
    /\ kernel_abi = 0
    /\ custom_env = EmptyMap
    /\ last_check = <<>>
    /\ InitPermissions
    /\ InitProcesses
    /\ history \in HistoryStates
    /\ output_buffer = StartupOutput
    /\ last_printed_index = 0
    /\ history_calls = <<>>
    /\ new_output = <<>>
    /\ stdin_tty = TRUE
    /\ raw_mode = TRUE

NextHistory == \E command \in HistoryCommands : AddToHistory(command)

SpecHistory == InitHistory /\ [][NextHistory]_vars

\* add_to_history has been called twice in a row with the same command
AddedTwice ==
    /\ Len(history_calls) = 2
    /\ history_calls[1].command = history_calls[2].command

\* C27 (as stated): for every history and every command c, after
\* add_to_history(c) followed by add_to_history(c) the history is longer by
\* exactly 1.
C27_HistoryDedupe ==
    AddedTwice => Len(history) = Len(history_calls[1].before) + 1

\* C27 (amended): after add_to_history(c) followed by add_to_history(c) the
\* history is longer by exactly 1 when c is not empty, is not the last entry
\* of the history and the history is below MAX_HISTORY_SIZE; otherwise its
\* length is as before. In every case the second call changes nothing.
C27_HistoryDedupeBelowCap ==
    AddedTwice =>
        LET c == history_calls[1].command
            before == history_calls[1].before
        IN  /\ Len(history) =
                  IF c # "" /\ last(before) # <<c>> /\ Len(before) < MAX_HISTORY_SIZE
                  THEN Len(before) + 1
                  ELSE Len(before)
            /\ history = history_calls[2].before
            /\ c # "" => last(history) = <<c>>

\* a new command has been added twice to a history below the cap
C27_Witness ==
    /\ AddedTwice
    /\ history_calls[1].command = "pwd"
    /\ history_calls[1].before = <<"ls">>
    /\ history = <<"ls", "pwd">>

\* ------------------------------------------------------------------------
\* The renderer in non-interactive mode (src/terminal/renderer.rs, src/main.rs)
\* ------------------------------------------------------------------------

\* TerminalRenderer::clear_output: the buffer after the call
clear_output(buffer) == <<>>

\* TerminalRenderer::get_new_output on a buffer and a last_printed_index: the
\* slice output_buffer[last_printed_index..] panics when the index is beyond
\* the buffer; otherwise the call returns the slice and moves the index
get_new_output(buffer, index) ==
    IF index > Len(buffer)
    THEN [kind |-> "Panic", lines |-> <<>>, index |-> index]
    ELSE [kind |-> "Ok", lines |-> SubSeq(buffer, index + 1, Len(buffer)),
          index |-> Len(buffer)]

\* the lines of standard input
NonInteractiveLines ==
    {"", "  ", "clear", "cls", "echo a", "echo b", "status", "allow SECRET", "exit"}

\* the most lines the commands add to the output before input ends
MaxNewOutput == 6

\* the last two calls of add_to_history
LastTwo(calls) == IF Len(calls) > 2 THEN Tail(calls) ELSE calls

\* the arms of handle_command that run no command
RendererArms == {"Exit", "ClearScreen", "ShowOutput", "AllowEnvVar"}

\* run_non_interactive has printed the initial output and loops over the lines
Looping ==
    /\ shell_pc = "idle"
    /\ handling = <<>>
    /\ new_output # <<>>
    /\ new_output[1].kind = "Ok"

\* lines 158-160: the initial output is printed
PrintInitialOutput ==
    /\ shell_pc = "idle"
    /\ handling = <<>>
    /\ new_output = <<>>
    /\ LET got == get_new_output(output_buffer, last_printed_index)
       IN  /\ new_output' = <<[kind |-> got.kind, lines |-> got.lines]>>
           /\ last_printed_index' = got.index
           /\ shell_pc' = IF got.kind = "Panic" THEN "panicked" ELSE shell_pc
    /\ UNCHANGED <<perm_vars, app_vars, os_vars, history, output_buffer, history_calls,
                   stdin_tty, raw_mode, last_check, child_pc, child_allowed_paths, isolation_status,
                   command_env, landlock, last_access, trace, exit_status, exec_result,
                   handling>>

\* lines 166-168: a line that is empty after trim is skipped
SkipLine(command) ==
    /\ Looping
    /\ trim(command) = ""
    /\ UNCHANGED vars

\* lines 171-178: handle_command on a line (the prompt and the line are added
\* to the output, the line to the history, process_input is called and its
\* result handled), then the new output is printed
RunLine(command) ==
    /\ Looping
    /\ trim(command) # ""
    /\ Len(output_buffer) < Len(StartupOutput) + MaxNewOutput
    /\ \E returned \in {process_input(command)},
          echoed \in {Append(output_buffer, PROMPT \o command)} :
           /\ returned # <<>>
           /\ returned[1].kind \in RendererArms
           /\ history' = add_to_history(history, command)
           /\ history_calls' =
                  LastTwo(Append(history_calls, [command |-> command, before |-> history]))
           /\ IF returned[1].kind = "AllowEnvVar"
              THEN allow_env_var(returned[1].var)
              ELSE UNCHANGED perm_vars
           /\ \E buffer \in {CASE returned[1].kind = "ClearScreen" -> clear_output(echoed)
                                [] returned[1].kind = "ShowOutput" ->
                                      echoed \o returned[1].lines
                                [] returned[1].kind = "AllowEnvVar" ->
                                      Append(echoed, "Allowed access to: " \o returned[1].var)
                                [] OTHER -> echoed} :
                 \E got \in {get_new_output(buffer, last_printed_index)} :
                  /\ output_buffer' = buffer
                  /\ IF returned[1].kind = "Exit"
                     THEN /\ shell_pc' = "exited"
                          /\ UNCHANGED <<last_printed_index, new_output>>
                     ELSE /\ new_output' = <<[kind |-> got.kind, lines |-> got.lines]>>
                          /\ last_printed_index' = got.index
                          /\ shell_pc' = IF got.kind = "Panic" THEN "panicked" ELSE shell_pc
    /\ UNCHANGED <<app_vars, os_vars, stdin_tty, raw_mode, last_check, child_pc,
                   child_allowed_paths, isolation_status, command_env, landlock,
                   last_access, trace, exit_status, exec_result, handling>>

InitNonInteractive ==
    /\ proc_env = TildeHomeEnv
    /\ config \in Configs
    /\ current_dir = "/h/w"
    /\ fs_exists = Files
    /\ fs_unopenable = {}
    /\ kernel_abi \in KernelAbis
    /\ custom_env = EmptyMap
    /\ last_check = <<>>
    /\ InitPermissions
    /\ InitProcesses
    /\ InitRenderer
    /\ stdin_tty = FALSE
    /\ raw_mode = FALSE

NextNonInteractive ==
    \/ PrintInitialOutput
    \/ \E command \in NonInteractiveLines : SkipLine(command)
    \/ \E command \in NonInteractiveLines : RunLine(command)

SpecNonInteractive == InitNonInteractive /\ [][NextNonInteractive]_vars

\* C28: in non-interactive mode, whatever the lines (clear and cls among
\* them), an empty line is skipped, after each command get_new_output returns
\* the prompt line and the lines the command added, without failing, and
\* last_printed_index is never beyond the output buffer.
C28_NonInteractiveOutput ==
    /\ [][\A command \in NonInteractiveLines :
            /\ SkipLine(command) => UNCHANGED vars
            /\ (RunLine(command) /\ shell_pc' # "exited") =>
                  /\ new_output'[1].kind = "Ok"
                  /\ new_output'[1].lines =
                        SubSeq(output_buffer', Len(output_buffer) + 1, Len(output_buffer'))
                  /\ new_output'[1].lines[1] = PROMPT \o command]_vars
    /\ [](new_output # <<>> => new_output[1].kind = "Ok")
    /\ [](last_printed_index <= Len(output_buffer))

\* ------------------------------------------------------------------------
\* One command at a time
\* ------------------------------------------------------------------------

\* the forked child runs: it has not called exit
ChildAlive == child_pc \notin {"none", "exited"}

\* the kernel wakes the shell blocked in waitpid once the child has exited,
\* and the child and the command it runs go on until they end
SpecInteractiveFair ==
    /\ SpecInteractive
    /\ WF_vars(Reap)
    /\ WF_vars(ChildRestrict \/ ChildBuildCommand \/ ChildSpawn \/ ChildSpawnFails)
    /\ WF_vars(\E ending \in CommandEndings : CommandEnds(ending))

\* C29: while the child of an interactive invocation is alive the shell is
\* blocked in waitpid: it takes no input line, dispatches none and changes
\* neither the PermissionManager nor custom_env; and once the child has
\* terminated the shell reaps it and is back at reading input.
C29_StrictlySequential ==
    /\ [](ChildAlive => shell_pc = "waitpid" /\ handling = <<>>)
    /\ [][ChildAlive => UNCHANGED <<handling, perm_vars, custom_env>>]_vars
    /\ (child_pc = "exited") ~> (child_pc = "none" /\ shell_pc = "idle")

\* ------------------------------------------------------------------------
\* The processes of an interactive invocation
\* ------------------------------------------------------------------------

\* the steps of the invocation that created a process
ProcessesCreated == {i \in 1..Len(trace) : trace[i][2] \in {"fork", "spawn"}}

\* C30: an interactive invocation creates exactly one process, the child the
\* shell forks; it is the child that, once restricted, execs the command, and
\* no other process is created for the invocation.
C30_OneChildBecomesCommand ==
    /\ child_pc # "none" =>
          /\ Cardinality(ProcessesCreated) = 1
          /\ \A i \in ProcessesCreated : trace[i] = <<"shell", "fork">>
    /\ \A i \in 1..Len(trace) : trace[i][2] = "exec" => trace[i][1] = "child"

\* ------------------------------------------------------------------------
\* The mutations the driver applies (App::handle_command, src/main.rs 254-288)
\* ------------------------------------------------------------------------

\* the lines that change the PermissionManager or custom_env
MutationLines ==
    {"allow SECRET", "deny SECRET", "allow", "deny", "export FOO='a  b'", "export FOO=c",
     "allowpath ~/a", "denypath ~/a"}

InitMutations ==
    /\ proc_env \in ProcEnvs
    /\ config \in Configs
    /\ current_dir = "/h/w"
    /\ fs_exists = Files
    /\ fs_unopenable = {}
    /\ kernel_abi \in KernelAbis
    /\ custom_env = EmptyMap
    /\ last_check = <<>>
    /\ InitPermissions
    /\ InitProcesses
    /\ InitTerminal

NextMutations ==
    \/ \E input \in MutationLines : ProcessInput(input)
    \/ HandleAllowEnvVar
    \/ HandleDenyEnvVar
    \/ HandleAllowAllEnvVars
    \/ HandleDenyAllEnvVars
    \/ HandleSetEnvVar
    \/ HandleAllowPath
    \/ HandleDenyPath

SpecMutations == InitMutations /\ [][NextMutations]_vars

\* the environment side of the PermissionManager
env_sets == <<allowed_env_vars, denied_env_vars>>

\* the filesystem side of the PermissionManager
path_sets == <<allowed_paths, denied_paths>>

\* C31: the driver applies each mutation to its target and to nothing else:
\* AllowEnvVar(v) and DenyEnvVar(v) move v between the two name sets,
\* AllowAllEnvVars and DenyAllEnvVars set only the policy, SetEnvVar(k, v) only
\* sets custom_env[k] to v, AllowPath(p) and DenyPath(p) change only the path
\* sets, and no step changes the Config.
C31_MutationsHitTheirTarget ==
    [][/\ config' = config
       /\ HandleAllowEnvVar =>
             /\ allowed_env_vars' = allowed_env_vars \cup {action.var}
             /\ denied_env_vars' = denied_env_vars \ {action.var}
             /\ UNCHANGED <<env_access_permission, path_sets, custom_env>>
       /\ HandleDenyEnvVar =>
             /\ denied_env_vars' = denied_env_vars \cup {action.var}
             /\ allowed_env_vars' = allowed_env_vars \ {action.var}
             /\ UNCHANGED <<env_access_permission, path_sets, custom_env>>
       /\ HandleAllowAllEnvVars =>
             /\ env_access_permission' = "Allowed"
             /\ UNCHANGED <<env_sets, path_sets, custom_env>>
       /\ HandleDenyAllEnvVars =>
             /\ env_access_permission' = "Denied"
             /\ UNCHANGED <<env_sets, path_sets, custom_env>>
       /\ HandleSetEnvVar =>
             /\ DOMAIN custom_env' = DOMAIN custom_env \cup {action.key}
             /\ custom_env'[action.key] = action.value
             /\ \A k \in DOMAIN custom_env \ {action.key} : custom_env'[k] = custom_env[k]
             /\ UNCHANGED perm_vars
       /\ (HandleAllowPath \/ HandleDenyPath) =>
             /\ allowed_paths' \cup denied_paths' =
                   allowed_paths \cup denied_paths \cup {expand_tilde(action.path)}
             /\ UNCHANGED <<env_access_permission, env_sets, custom_env>>]_vars

\* `allow` after `deny SECRET`, an overwriting export and `denypath`: the
\* policy is Allowed and the name, the value and the path are as they were
C31_Witness ==
    /\ env_access_permission = "Allowed"
    /\ "SECRET" \in denied_env_vars
    /\ "FOO" \in DOMAIN custom_env
    /\ custom_env["FOO"] = "c"
    /\ "/h/a" \in denied_paths
    /\ handling # <<>>
    /\ handling[1].input = "export FOO='a  b'"

\* ------------------------------------------------------------------------
\* What execute_interactive returns (src/shell/executor.rs 128-150)
\* ------------------------------------------------------------------------

\* C32: when fork and waitpid succeed execute_interactive returns
\* Ok(NotEnforced), whatever isolation status the child obtained and whatever
\* the exit code of the command: the step in which waitpid returns gives that
\* value from every status and every code, and no other Ok value is returned.
C32_ReturnsNotEnforced ==
    /\ [][(shell_pc = "waitpid" /\ shell_pc' = "idle" /\ child_pc' = "none") =>
            /\ isolation_status \in {"FullyEnforced", "PartiallyEnforced", "NotEnforced",
                                      "NotAvailable"}
            /\ exit_status # <<>>
            /\ exec_result' = <<"Ok(NotEnforced)">>]_vars
    /\ [](exec_result \in {<<>>, <<"Err">>, <<"Ok(NotEnforced)">>})

\* an invocation on a kernel with Landlock, whose child was fully enforced,
\* has returned NotEnforced
C32_Witness ==
    /\ exec_result = <<"Ok(NotEnforced)">>
    /\ isolation_status = "FullyEnforced"
    /\ shell_pc = "idle"
    /\ child_pc = "none"

\* ------------------------------------------------------------------------
\* Denied variables and the environment of a command
\* ------------------------------------------------------------------------

\* a command has been spawned and runs with command_env
CommandRunning == CapturedRunning \/ InteractiveRunning

\* C33 (as stated): a name in denied_env_vars when a command is spawned,
\* captured or interactive, is no entry of the command's environment, also
\* when the user has exported a value for it.
C33_DeniedNeverPassed ==
    CommandRunning => \A v \in denied_env_vars : v \notin DOMAIN command_env

\* C33 (amended): a name in denied_env_vars when a command is spawned is an
\* entry of the command's environment only with the value the user exported
\* for it or, in an interactive invocation and when not exported, as one of
\* the fixed PWD / DSHELL_* entries; the value of the process environment is
\* not passed on.
C33_DeniedPassedOnlyIfExported ==
    CommandRunning =>
        \A v \in denied_env_vars :
            IF v \in DOMAIN custom_env
            THEN v \in DOMAIN command_env /\ command_env[v] = custom_env[v]
            ELSE IF InteractiveRunning /\ v \in DOMAIN FixedEnv(current_dir, isolation_status)
            THEN v \in DOMAIN command_env
                 /\ command_env[v] = FixedEnv(current_dir, isolation_status)[v]
            ELSE v \notin DOMAIN command_env

\* a captured command runs while FOO and SECRET are denied and FOO has been
\* exported: FOO is passed with the exported value, SECRET is not passed
C33_Witness ==
    /\ CapturedRunning
    /\ {"FOO", "SECRET"} \subseteq denied_env_vars
    /\ "SECRET" \in DOMAIN proc_env
    /\ DOMAIN custom_env = {"FOO"}
    /\ custom_env["FOO"] = "x"
    /\ command_env["FOO"] = "x"
    /\ "SECRET" \notin DOMAIN command_env

\* C34: a variable k of the process environment that check_env_var allows and
\* that is not in custom_env is expanded by `echo $k` to its real value and is
\* passed to a spawned command with its real value, whatever the value is.
C34_AllowedPassedWithRealValue ==
    \A k \in DOMAIN proc_env :
        (check_env_var(k) = "Allowed" /\ k \notin DOMAIN custom_env) =>
            /\ get_var_value(k) = proc_env[k]
            /\ CommandRunning => (k \in DOMAIN command_env /\ command_env[k] = proc_env[k])

\* ------------------------------------------------------------------------
\* Lines whose command is `export`
\* ------------------------------------------------------------------------

\* process_input has been called on a line whose command token is `export`
ExportHandled ==
    /\ handling # <<>>
    /\ ParsedCommand_parse(handling[1].input) # <<>>
    /\ ParsedCommand_parse(handling[1].input)[1].command = "export"

\* C35: parsing an `export` line never aborts the shell: whatever follows the
\* command token, a value of one quote character included, Builtins::parse
\* returns Export(k, v) or no builtin.
C35_ExportParseNeverAborts ==
    ExportHandled =>
        \/ Builtins_parse(ParsedCommand_parse(handling[1].input)[1]) = <<>>
        \/ Builtins_parse(ParsedCommand_parse(handling[1].input)[1])[1].kind = "Export"

\* C36: a line whose first token is `export` is handled inside the shell:
\* process_input returns neither ExecuteCaptured nor ExecuteInteractive for
\* it, also when no `=` follows.
C36_ExportNeverSpawned ==
    ExportHandled =>
        /\ handling[1].action # <<>>
        /\ action.kind \notin {"ExecuteCaptured", "ExecuteInteractive"}

\* ------------------------------------------------------------------------
\* listallowpath and the allow-list of the next interactive command
\* ------------------------------------------------------------------------

\* the paths the lines of `listallowpath` show as allowed
ListedPaths(lines) ==
    LET mark == "  " \o CheckMark \o " "
    IN  {SubSeq(lines[i], Len(mark) + 1, Len(lines[i])) :
            i \in {j \in 1..Len(lines) : StartsWith(lines[j], mark)}}

\* the allow-list execute_in_isolated_child would hand to restrict_filesystem
EffectiveAllowList == sorted(allowed_paths) \o ConfigAllowed(config.additional_allowed_paths)

\* C37: the paths `listallowpath` lists as allowed, and the total it prints,
\* are those of the allow-list the child of the next interactive command
\* passes to restrict_filesystem; a config path denied with `denypath` is not
\* listed.
C37_ListMatchesEnforcement ==
    (handling # <<>> /\ handling[1].input = "listallowpath") =>
        /\ action.kind = "ShowOutput"
        /\ ListedPaths(action.lines) = Range(EffectiveAllowList)
        /\ StartsWith(action.lines[Len(action.lines)],
                      "Total: " \o ToString(Len(EffectiveAllowList)) \o " allowed path(s)")

\* C38: the restriction is all-or-nothing. restrict_self is the last call of
\* restrict_filesystem, so when it returns an error (which the child records as
\* NotEnforced) or NotAvailable the domain of the calling process is what it was
\* before the call; and the process is in an enforced domain only if the working
\* directory could be opened and the domain holds every rule of the ruleset,
\* the work_dir rule among them
C38_AllOrNothing ==
    [][(child_pc = "forked" /\ child_pc' = "restricted") =>
         /\ landlock'["shell"] = landlock["shell"]
         /\ ~is_enforced(isolation_status') => landlock'["child"] = landlock["child"]
         /\ landlock'["child"].enforced =>
              /\ is_enforced(isolation_status')
              /\ CanOpen(current_dir)
              /\ [path |-> Absolute(current_dir),
                  access |-> AccessFs_from_all(get_abi_version)] \in landlock'["child"].rules
              /\ landlock'["child"].rules = RulesetRules(current_dir, child_allowed_paths')]_vars

\* restrict_filesystem has failed on a kernel with Landlock, being asked for an
\* allowed path that exists and can be opened, because the working directory
\* cannot be opened: the child is in no domain
C38_Witness ==
    /\ child_pc = "restricted"
    /\ get_abi_version # 0
    /\ ~CanOpen(current_dir)
    /\ \E i \in 1..Len(child_allowed_paths) : CanOpen(expand_tilde(child_allowed_paths[i]))
    /\ isolation_status = "NotEnforced"
    /\ landlock["child"] = NoDomain

\* ------------------------------------------------------------------------
\* Raw mode of the terminal in the two run modes (App::run, handle_command)
\* ------------------------------------------------------------------------

\* App::run, lines 129-141: on a terminal raw mode is enabled before the event
\* loop; otherwise run_non_interactive reads the lines and raw mode is left off
InitRunModes ==
    /\ proc_env \in ProcEnvs
    /\ config = [interactive_commands |-> <<"vim">>, additional_allowed_paths |-> <<>>,
                 denied_paths |-> <<>>]
    /\ current_dir = "/h/w"
    /\ fs_exists = Files
    /\ fs_unopenable = {}
    /\ kernel_abi \in {0, 3}
    /\ custom_env = EmptyMap
    /\ last_check = <<>>
    /\ InitPermissions
    /\ InitProcesses
    /\ InitRenderer
    /\ stdin_tty \in BOOLEAN
    /\ raw_mode = stdin_tty

SpecRunModes == InitRunModes /\ [][NextInteractive]_vars

\* C39: raw mode follows the run mode. In interactive mode raw mode is off as
\* long as an interactive child exists and is on again when handle_command has
\* finished the command, also when execute_interactive failed; in
\* non-interactive mode raw mode is never on, whatever command is run
C39_RawModeFollowsRunMode ==
    /\ (stdin_tty /\ child_pc # "none") => ~raw_mode
    /\ (stdin_tty /\ shell_pc = "idle" /\ exec_result # <<>>) => raw_mode
    /\ ~stdin_tty => ~raw_mode

====
